---- MODULE Spec2Model ----
(***************************************************************************)
(* A model of the company-analysis engine of uk_investment_strategy.py     *)
(* (class UKInvestmentStrategy) and of the statistics helpers of app.py.   *)
(*                                                                         *)
(* Text is modelled as a sequence of one-character strings, so that        *)
(* lower(), strip() and the substring test `a in b` are computed, not      *)
(* assumed.  Scores are binary64 floats, rounded as Python rounds them.     *)
(* The external collaborators (the ticker search and the market data       *)
(* provider) are nondeterministic inputs of the steps calling them.        *)
(***************************************************************************)
EXTENDS Integers, Sequences, FiniteSets, TLC

VARIABLES
  pc,                 \* request -> position in analyze_company
  company_name,       \* request -> the argument of analyze_company
  ticker,             \* request -> local `ticker`
  company_data,       \* request -> local `company_data` = <<data, info>>
  sector,             \* request -> local `sector` of perform_company_analysis
  geopolitical_risk,  \* request -> local score mapping
  supply_chain_risk,  \* request -> local score mapping
  capital_flow_risk,  \* request -> local score mapping
  financial_metrics,  \* request -> local statistics mapping
  recommendation,     \* request -> local recommendation record
  result,             \* request -> value returned by analyze_company
  trace,              \* request -> methods invoked so far by the running call
  provider,           \* request -> what the market data provider did in this call
  fault,              \* request -> exception raised inside the try block, if any
  query,              \* the last direct call of a method: its name and arguments
  answer,             \* what that direct call returned or raised
  analyzer            \* the attributes of the analyzer object (self)

vars == <<pc, company_name, ticker, company_data, sector, geopolitical_risk,
          supply_chain_risk, capital_flow_risk, financial_metrics,
          recommendation, result, trace, provider, fault, query, answer,
          analyzer>>

call_vars == <<pc, company_name, ticker, company_data, sector,
               geopolitical_risk, supply_chain_risk, capital_flow_risk,
               financial_metrics, recommendation, result, trace, provider,
               fault>>

(***************************************************************************)
(* Bounds of the model.                                                    *)
(***************************************************************************)
MaxNameLen == 3       \* longest enumerated free-text name
MaxPad == 1           \* most whitespace put on either side of a name
MaxCandidates == 2    \* most candidates the external ticker search returns
MaxBars == 2          \* longest price series the provider returns to a request
MaxPrice == 2         \* highest closing price in those series
StatsMaxBars == 3     \* longest price series handed to the statistics directly
StatsMaxPrice == 4    \* highest closing price in those series
MaxFactors == 2       \* most factors in a mapping handed to the recommendation directly

(***************************************************************************)
(* Python values.                                                          *)
(***************************************************************************)
None == "None"                      \* the value None where a ticker is expected
NoneName == <<None>>                \* None passed where a company name is expected
Ret(v) == [exc |-> "", val |-> v]   \* a call that returned v
Exc(e) == [exc |-> e, val |-> None] \* a call that raised exception e
Raised(o) == o.exc # ""

(***************************************************************************)
(* str.lower(), str.strip() and the substring test.                        *)
(***************************************************************************)
UpperCase == <<"A","B","C","D","E","F","G","H","I","J","K","L","M",
               "N","O","P","Q","R","S","T","U","V","W","X","Y","Z">>
LowerCase == <<"a","b","c","d","e","f","g","h","i","j","k","l","m",
               "n","o","p","q","r","s","t","u","v","w","x","y","z">>
Whitespace == {" ", "\t"}

LowerChar(c) ==
  IF \E i \in 1..Len(UpperCase) : UpperCase[i] = c
  THEN LowerCase[CHOOSE i \in 1..Len(UpperCase) : UpperCase[i] = c]
  ELSE c

UpperChar(c) ==
  IF \E i \in 1..Len(LowerCase) : LowerCase[i] = c
  THEN UpperCase[CHOOSE i \in 1..Len(LowerCase) : LowerCase[i] = c]
  ELSE c

\* s.lower()
Lower(s) == [i \in 1..Len(s) |-> LowerChar(s[i])]

\* s.upper(), used to build inputs
Upper(s) == [i \in 1..Len(s) |-> UpperChar(s[i])]

\* s.strip(): drop the leading and the trailing whitespace
Strip(s) ==
  LET keep == {i \in 1..Len(s) : s[i] \notin Whitespace}
  IN IF keep = {} THEN <<>>
     ELSE SubSeq(s, CHOOSE i \in keep : \A j \in keep : i <= j,
                    CHOOSE i \in keep : \A j \in keep : j <= i)

\* sub in s
Contains(sub, s) ==
  \E i \in 0..(Len(s) - Len(sub)) : SubSeq(s, i + 1, i + Len(sub)) = sub

(***************************************************************************)
(* find_company_ticker: the alias table as the dict literal lists it,      *)
(* duplicates included.                                                    *)
(***************************************************************************)
uk_companies_literal ==
  <<
    <<<<"h","s","b","c">>, "HSBC.L">>,
    <<<<"b","a","r","c","l","a","y","s">>, "BARC.L">>,
    <<<<"l","l","o","y","d","s">>, "LLOY.L">>,
    <<<<"r","b","s">>, "RBS.L">>,
    <<<<"n","a","t","w","e","s","t">>, "NWG.L">>,
    <<<<"u","n","i","l","e","v","e","r">>, "ULVR.L">>,
    <<<<"g","l","a","x","o","s","m","i","t","h","k","l","i","n","e">>, "GSK.L">>,
    <<<<"a","s","t","r","a","z","e","n","e","c","a">>, "AZN.L">>,
    <<<<"b","p">>, "BP.L">>,
    <<<<"s","h","e","l","l">>, "SHEL.L">>,
    <<<<"r","o","y","a","l"," ","d","u","t","c","h"," ","s","h","e","l","l">>, "SHEL.L">>,
    <<<<"b","r","i","t","i","s","h"," ","a","m","e","r","i","c","a","n"," ","t","o","b","a","c","c","o">>, "BATS.L">>,
    <<<<"i","m","p","e","r","i","a","l"," ","b","r","a","n","d","s">>, "IMB.L">>,
    <<<<"d","i","a","g","e","o">>, "DGE.L">>,
    <<<<"r","i","o"," ","t","i","n","t","o">>, "RIO.L">>,
    <<<<"b","h","p">>, "BHP.L">>,
    <<<<"a","n","g","l","o"," ","a","m","e","r","i","c","a","n">>, "AAL.L">>,
    <<<<"g","l","e","n","c","o","r","e">>, "GLEN.L">>,
    <<<<"v","o","d","a","f","o","n","e">>, "VOD.L">>,
    <<<<"b","t">>, "BT-A.L">>,
    <<<<"b","r","i","t","i","s","h"," ","t","e","l","e","c","o","m">>, "BT-A.L">>,
    <<<<"c","e","n","t","r","i","c","a">>, "CNA.L">>,
    <<<<"n","a","t","i","o","n","a","l"," ","g","r","i","d">>, "NG.L">>,
    <<<<"s","s","p">>, "SSPG.L">>,
    <<<<"s","a","g","e">>, "SGE.L">>,
    <<<<"j","u","s","t"," ","e","a","t">>, "JET.L">>,
    <<<<"d","e","l","i","v","e","r","o","o">>, "ROO.L">>,
    <<<<"o","c","a","d","o">>, "OCDO.L">>,
    <<<<"a","s","o","s">>, "ASC.L">>,
    <<<<"b","o","o","h","o","o">>, "BOO.L">>,
    <<<<"n","e","x","t">>, "NXT.L">>,
    <<<<"m","a","r","k","s"," ","a","n","d"," ","s","p","e","n","c","e","r">>, "MKS.L">>,
    <<<<"t","e","s","c","o">>, "TSCO.L">>,
    <<<<"s","a","i","n","s","b","u","r","y">>, "SBRY.L">>,
    <<<<"m","o","r","r","i","s","o","n","s">>, "MRW.L">>,
    <<<<"p","e","r","s","i","m","m","o","n">>, "PSN.L">>,
    <<<<"b","a","r","r","a","t","t">>, "BDEV.L">>,
    <<<<"t","a","y","l","o","r"," ","w","i","m","p","e","y">>, "TW.L">>,
    <<<<"b","e","r","k","e","l","e","y">>, "BKG.L">>,
    <<<<"l","a","n","d"," ","s","e","c","u","r","i","t","i","e","s">>, "LAND.L">>,
    <<<<"b","r","i","t","i","s","h"," ","l","a","n","d">>, "BLND.L">>,
    <<<<"s","e","g","r","o">>, "SGRO.L">>,
    <<<<"r","i","g","h","t","m","o","v","e">>, "RMV.L">>,
    <<<<"z","o","o","p","l","a">>, "ZPLA.L">>,
    <<<<"a","u","t","o","t","r","a","d","e","r">>, "AUTO.L">>,
    <<<<"h","a","l","m","a">>, "HLMA.L">>,
    <<<<"s","p","i","r","a","x"," ","s","a","r","c","o">>, "SPX.L">>,
    <<<<"r","e","n","i","s","h","a","w">>, "RSW.L">>,
    <<<<"w","e","i","r">>, "WEIR.L">>,
    <<<<"m","e","l","r","o","s","e">>, "MRO.L">>,
    <<<<"r","o","l","l","s"," ","r","o","y","c","e">>, "RR.L">>,
    <<<<"b","a","e"," ","s","y","s","t","e","m","s">>, "BA.L">>,
    <<<<"c","o","b","h","a","m">>, "COB.L">>,
    <<<<"g","4","s">>, "GFS.L">>,
    <<<<"s","e","r","c","o">>, "SRP.L">>,
    <<<<"c","a","p","i","t","a">>, "CPI.L">>,
    <<<<"m","i","t","i","e">>, "MTO.L">>,
    <<<<"c","o","m","p","a","s","s">>, "CPG.L">>,
    <<<<"w","h","i","t","b","r","e","a","d">>, "WTB.L">>,
    <<<<"i","n","t","e","r","c","o","n","t","i","n","e","n","t","a","l"," ","h","o","t","e","l","s">>, "IHG.L">>,
    <<<<"e","a","s","y","j","e","t">>, "EZJ.L">>,
    <<<<"i","n","t","e","r","n","a","t","i","o","n","a","l"," ","a","i","r","l","i","n","e","s"," ","g","r","o","u","p">>, "IAG.L">>,
    <<<<"r","y","a","n","a","i","r">>, "RYA.L">>,
    <<<<"w","i","z","z"," ","a","i","r">>, "WIZZ.L">>,
    <<<<"c","a","r","n","i","v","a","l">>, "CCL.L">>,
    <<<<"t","u","i">>, "TUI.L">>,
    <<<<"t","h","o","m","a","s"," ","c","o","o","k">>, "TCG.L">>,
    <<<<"s","p","o","r","t","s"," ","d","i","r","e","c","t">>, "SPD.L">>,
    <<<<"j","d"," ","s","p","o","r","t","s">>, "JD.L">>,
    <<<<"f","r","a","s","e","r","s">>, "FRAS.L">>,
    <<<<"s","u","p","e","r","d","r","y">>, "SDRY.L">>,
    <<<<"t","e","d"," ","b","a","k","e","r">>, "TED.L">>,
    <<<<"b","u","r","b","e","r","r","y">>, "BRBY.L">>,
    <<<<"m","u","l","b","e","r","r","y">>, "MUL.L">>,
    <<<<"j","i","m","m","y"," ","c","h","o","o">>, "CHOO.L">>,
    <<<<"a","s","o","s">>, "ASC.L">>,
    <<<<"b","o","o","h","o","o">>, "BOO.L">>,
    <<<<"m","i","s","s","g","u","i","d","e","d">>, "MGID.L">>,
    <<<<"p","r","e","t","t","y"," ","l","i","t","t","l","e"," ","t","h","i","n","g">>, "PLT.L">>,
    <<<<"n","a","-","k","d">>, "NAKD.L">>,
    <<<<"r","e","v","o","l","v","e">>, "RVLV.L">>,
    <<<<"s","t","i","t","c","h"," ","f","i","x">>, "SFIX.L">>,
    <<<<"w","a","y","f","a","i","r">>, "W.L">>,
    <<<<"e","t","s","y">>, "ETSY.L">>,
    <<<<"s","h","o","p","i","f","y">>, "SHOP.L">>,
    <<<<"s","q","u","a","r","e">>, "SQ.L">>,
    <<<<"s","t","r","i","p","e">>, "STRIPE.L">>,
    <<<<"k","l","a","r","n","a">>, "KLARNA.L">>,
    <<<<"m","o","n","z","o">>, "MONZO.L">>,
    <<<<"r","e","v","o","l","u","t">>, "REVOLUT.L">>,
    <<<<"t","r","a","n","s","f","e","r","w","i","s","e">>, "WISE.L">>,
    <<<<"w","i","s","e">>, "WISE.L">>,
    <<<<"c","h","e","c","k","o","u","t",".","c","o","m">>, "CHECKOUT.L">>,
    <<<<"r","a","p","y","d">>, "RAPYD.L">>,
    <<<<"g","o"," ","c","a","r","d","l","e","s","s">>, "GOCARDLESS.L">>,
    <<<<"s","u","m","u","p">>, "SUMUP.L">>,
    <<<<"w","o","r","l","d","p","a","y">>, "WP.L">>,
    <<<<"n","o","r","t","o","n","l","i","f","e","l","o","c","k">>, "NLOK.L">>,
    <<<<"a","v","a","s","t">>, "AVST.L">>,
    <<<<"k","a","s","p","e","r","s","k","y">>, "KASPERSKY.L">>,
    <<<<"t","r","e","n","d"," ","m","i","c","r","o">>, "TMIC.L">>,
    <<<<"c","r","o","w","d","s","t","r","i","k","e">>, "CRWD.L">>,
    <<<<"p","a","l","o"," ","a","l","t","o"," ","n","e","t","w","o","r","k","s">>, "PANW.L">>,
    <<<<"f","o","r","t","i","n","e","t">>, "FTNT.L">>,
    <<<<"c","h","e","c","k"," ","p","o","i","n","t">>, "CHKP.L">>,
    <<<<"s","y","m","a","n","t","e","c">>, "SYMC.L">>,
    <<<<"m","c","a","f","e","e">>, "MCFE.L">>,
    <<<<"b","i","t","d","e","f","e","n","d","e","r">>, "BITDEFENDER.L">>,
    <<<<"m","a","l","w","a","r","e","b","y","t","e","s">>, "MALWAREBYTES.L">>,
    <<<<"e","s","e","t">>, "ESET.L">>,
    <<<<"s","o","p","h","o","s">>, "SOPHOS.L">>,
    <<<<"f","-","s","e","c","u","r","e">>, "F-SECURE.L">>,
    <<<<"b","u","l","l","g","u","a","r","d">>, "BULLGUARD.L">>,
    <<<<"a","v","g">>, "AVG.L">>,
    <<<<"a","v","i","r","a">>, "AVIRA.L">>,
    <<<<"n","o","r","t","o","n">>, "NORTON.L">>,
    <<<<"m","i","c","r","o","s","o","f","t">>, "MSFT">>,
    <<<<"a","p","p","l","e">>, "AAPL">>,
    <<<<"g","o","o","g","l","e">>, "GOOGL">>,
    <<<<"a","l","p","h","a","b","e","t">>, "GOOGL">>,
    <<<<"a","m","a","z","o","n">>, "AMZN">>,
    <<<<"f","a","c","e","b","o","o","k">>, "META">>,
    <<<<"m","e","t","a">>, "META">>,
    <<<<"n","e","t","f","l","i","x">>, "NFLX">>,
    <<<<"t","e","s","l","a">>, "TSLA">>,
    <<<<"n","v","i","d","i","a">>, "NVDA">>,
    <<<<"a","m","d">>, "AMD">>,
    <<<<"i","n","t","e","l">>, "INTC">>,
    <<<<"q","u","a","l","c","o","m","m">>, "QCOM">>,
    <<<<"b","r","o","a","d","c","o","m">>, "AVGO">>,
    <<<<"c","i","s","c","o">>, "CSCO">>,
    <<<<"o","r","a","c","l","e">>, "ORCL">>,
    <<<<"s","a","l","e","s","f","o","r","c","e">>, "CRM">>,
    <<<<"a","d","o","b","e">>, "ADBE">>,
    <<<<"p","a","y","p","a","l">>, "PYPL">>,
    <<<<"v","i","s","a">>, "V">>,
    <<<<"m","a","s","t","e","r","c","a","r","d">>, "MA">>,
    <<<<"a","m","e","r","i","c","a","n"," ","e","x","p","r","e","s","s">>, "AXP">>,
    <<<<"d","i","s","c","o","v","e","r","y">>, "DISCA">>,
    <<<<"w","a","r","n","e","r"," ","b","r","o","s">>, "WBD">>,
    <<<<"p","a","r","a","m","o","u","n","t">>, "PARA">>,
    <<<<"c","o","m","c","a","s","t">>, "CMCSA">>,
    <<<<"v","e","r","i","z","o","n">>, "VZ">>,
    <<<<"a","t","&","t">>, "T">>,
    <<<<"a","t","t">>, "T">>,
    <<<<"t","-","m","o","b","i","l","e">>, "TMUS">>,
    <<<<"s","p","r","i","n","t">>, "S">>,
    <<<<"c","h","a","r","t","e","r">>, "CHTR">>,
    <<<<"c","a","b","l","e","v","i","s","i","o","n">>, "CVC">>,
    <<<<"t","i","m","e"," ","w","a","r","n","e","r">>, "TWX">>,
    <<<<"v","i","a","c","o","m">>, "VIAB">>,
    <<<<"c","b","s">>, "CBS">>,
    <<<<"f","o","x">>, "FOX">>,
    <<<<"n","e","w","s"," ","c","o","r","p">>, "NWSA">>,
    <<<<"2","1","s","t"," ","c","e","n","t","u","r","y"," ","f","o","x">>, "FOXA">>,
    <<<<"d","i","s","n","e","y">>, "DIS">>,
    <<<<"p","i","x","a","r">>, "PIXAR">>,
    <<<<"m","a","r","v","e","l">>, "MARVEL">>,
    <<<<"l","u","c","a","s","f","i","l","m">>, "LUCASFILM">>,
    <<<<"s","t","a","r"," ","w","a","r","s">>, "STARWARS">>,
    <<<<"p","i","x","a","r">>, "PIXAR">>,
    <<<<"d","r","e","a","m","w","o","r","k","s">>, "DWA">>,
    <<<<"u","n","i","v","e","r","s","a","l">>, "CMCSA">>,
    <<<<"s","o","n","y">>, "SONY">>,
    <<<<"n","i","n","t","e","n","d","o">>, "NTDOY">>,
    <<<<"e","l","e","c","t","r","o","n","i","c"," ","a","r","t","s">>, "EA">>,
    <<<<"a","c","t","i","v","i","s","i","o","n"," ","b","l","i","z","z","a","r","d">>, "ATVI">>,
    <<<<"t","a","k","e"," ","t","w","o">>, "TTWO">>,
    <<<<"u","b","i","s","o","f","t">>, "UBI.PA">>,
    <<<<"c","a","p","c","o","m">>, "9697.T">>,
    <<<<"k","o","n","a","m","i">>, "9766.T">>,
    <<<<"s","e","g","a">>, "6460.T">>,
    <<<<"b","a","n","d","a","i"," ","n","a","m","c","o">>, "7832.T">>,
    <<<<"s","q","u","a","r","e"," ","e","n","i","x">>, "9684.T">>,
    <<<<"n","i","n","t","e","n","d","o">>, "7974.T">>,
    <<<<"s","o","n","y">>, "6758.T">>,
    <<<<"m","i","c","r","o","s","o","f","t">>, "MSFT">>,
    <<<<"a","p","p","l","e">>, "AAPL">>,
    <<<<"g","o","o","g","l","e">>, "GOOGL">>,
    <<<<"a","l","p","h","a","b","e","t">>, "GOOGL">>,
    <<<<"a","m","a","z","o","n">>, "AMZN">>,
    <<<<"f","a","c","e","b","o","o","k">>, "META">>,
    <<<<"m","e","t","a">>, "META">>,
    <<<<"n","e","t","f","l","i","x">>, "NFLX">>,
    <<<<"t","e","s","l","a">>, "TSLA">>,
    <<<<"n","v","i","d","i","a">>, "NVDA">>,
    <<<<"a","m","d">>, "AMD">>,
    <<<<"i","n","t","e","l">>, "INTC">>,
    <<<<"q","u","a","l","c","o","m","m">>, "QCOM">>,
    <<<<"b","r","o","a","d","c","o","m">>, "AVGO">>,
    <<<<"c","i","s","c","o">>, "CSCO">>,
    <<<<"o","r","a","c","l","e">>, "ORCL">>,
    <<<<"s","a","l","e","s","f","o","r","c","e">>, "CRM">>,
    <<<<"a","d","o","b","e">>, "ADBE">>,
    <<<<"p","a","y","p","a","l">>, "PYPL">>,
    <<<<"v","i","s","a">>, "V">>,
    <<<<"m","a","s","t","e","r","c","a","r","d">>, "MA">>,
    <<<<"a","m","e","r","i","c","a","n"," ","e","x","p","r","e","s","s">>, "AXP">>,
    <<<<"d","i","s","c","o","v","e","r","y">>, "DISCA">>,
    <<<<"w","a","r","n","e","r"," ","b","r","o","s">>, "WBD">>,
    <<<<"p","a","r","a","m","o","u","n","t">>, "PARA">>,
    <<<<"c","o","m","c","a","s","t">>, "CMCSA">>,
    <<<<"v","e","r","i","z","o","n">>, "VZ">>,
    <<<<"a","t","&","t">>, "T">>,
    <<<<"a","t","t">>, "T">>,
    <<<<"t","-","m","o","b","i","l","e">>, "TMUS">>,
    <<<<"s","p","r","i","n","t">>, "S">>,
    <<<<"c","h","a","r","t","e","r">>, "CHTR">>,
    <<<<"c","a","b","l","e","v","i","s","i","o","n">>, "CVC">>,
    <<<<"t","i","m","e"," ","w","a","r","n","e","r">>, "TWX">>,
    <<<<"v","i","a","c","o","m">>, "VIAB">>,
    <<<<"c","b","s">>, "CBS">>,
    <<<<"f","o","x">>, "FOX">>,
    <<<<"n","e","w","s"," ","c","o","r","p">>, "NWSA">>,
    <<<<"2","1","s","t"," ","c","e","n","t","u","r","y"," ","f","o","x">>, "FOXA">>,
    <<<<"d","i","s","n","e","y">>, "DIS">>,
    <<<<"p","i","x","a","r">>, "PIXAR">>,
    <<<<"m","a","r","v","e","l">>, "MARVEL">>,
    <<<<"l","u","c","a","s","f","i","l","m">>, "LUCASFILM">>,
    <<<<"s","t","a","r"," ","w","a","r","s">>, "STARWARS">>,
    <<<<"p","i","x","a","r">>, "PIXAR">>,
    <<<<"d","r","e","a","m","w","o","r","k","s">>, "DWA">>,
    <<<<"u","n","i","v","e","r","s","a","l">>, "CMCSA">>,
    <<<<"s","o","n","y">>, "SONY">>,
    <<<<"n","i","n","t","e","n","d","o">>, "NTDOY">>,
    <<<<"e","l","e","c","t","r","o","n","i","c"," ","a","r","t","s">>, "EA">>,
    <<<<"a","c","t","i","v","i","s","i","o","n"," ","b","l","i","z","z","a","r","d">>, "ATVI">>,
    <<<<"t","a","k","e"," ","t","w","o">>, "TTWO">>,
    <<<<"u","b","i","s","o","f","t">>, "UBI.PA">>,
    <<<<"c","a","p","c","o","m">>, "9697.T">>,
    <<<<"k","o","n","a","m","i">>, "9766.T">>,
    <<<<"s","e","g","a">>, "6460.T">>,
    <<<<"b","a","n","d","a","i"," ","n","a","m","c","o">>, "7832.T">>,
    <<<<"s","q","u","a","r","e"," ","e","n","i","x">>, "9684.T">>,
    <<<<"n","i","n","t","e","n","d","o">>, "7974.T">>,
    <<<<"s","o","n","y">>, "6758.T">>
  >>

\* Variant of DictItems: a key listed again keeps the value of its first
\* listing.
DictItems_first(lit) ==
  LET first == {i \in 1..Len(lit) : \A j \in 1..(i - 1) : lit[j][1] # lit[i][1]}
      nth(n) == CHOOSE i \in first : Cardinality({j \in first : j < i}) = n - 1
  IN [n \in 1..Cardinality(first) |-> lit[nth(n)]]

\* Building a dict from a literal: a key keeps the position of its first
\* listing and takes the value of its last listing.
DictItems(lit) ==
  LET first == {i \in 1..Len(lit) : \A j \in 1..(i - 1) : lit[j][1] # lit[i][1]}
      last(k) == CHOOSE i \in 1..Len(lit) :
                   /\ lit[i][1] = k
                   /\ \A j \in (i + 1)..Len(lit) : lit[j][1] # k
      nth(n) == CHOOSE i \in first : Cardinality({j \in first : j < i}) = n - 1
  IN [n \in 1..Cardinality(first) |->
        <<lit[nth(n)][1], lit[last(lit[nth(n)][1])][2]>>]

\* uk_companies.items(), in iteration order
uk_companies == DictItems(uk_companies_literal)

\* company_lower in name or name in company_lower
AliasMatch(company_lower, name) ==
  Contains(company_lower, name) \/ Contains(name, company_lower)

\* Variant of AliasLoop: the loop keeps going, so the last match wins.
AliasLoop_last(items, company_lower) ==
  LET hits == {i \in 1..Len(items) : AliasMatch(company_lower, items[i][1])}
  IN IF hits = {} THEN None
     ELSE items[CHOOSE i \in hits : \A j \in hits : j <= i][2]

\* for name, ticker in uk_companies.items(): if ...: return ticker
\* The loop returns at the first item that matches; None stands for
\* falling out of the loop.
AliasLoop(items, company_lower) ==
  LET hits == {i \in 1..Len(items) : AliasMatch(company_lower, items[i][1])}
  IN IF hits = {} THEN None
     ELSE items[CHOOSE i \in hits : \A j \in hits : i <= j][2]

\* What yf.Tickers(company_name) does when it is called: it raises, or gives
\* a (possibly empty) list of candidates.  NotConsulted stands for a call of
\* find_company_ticker that never reaches the search.
Candidates == {"XYZ.L", "ACME"}
SearchBehaviours ==
  {[consulted |-> TRUE, raises |-> TRUE, results |-> <<>>]} \cup
  {[consulted |-> TRUE, raises |-> FALSE, results |-> s] :
     s \in UNION {[1..n -> Candidates] : n \in 0..MaxCandidates}}
NotConsulted == [consulted |-> FALSE, raises |-> FALSE, results |-> <<>>]

\* Variant of TickerSearch: no try/except around the search.
TickerSearch_unguarded(search) ==
  IF search.raises THEN Exc("SearchError")
  ELSE IF Len(search.results) > 0 THEN Ret(search.results[1])
  ELSE Ret(None)

\* try: search_results = yf.Tickers(company_name)
\*      if search_results and len(search_results) > 0: return search_results[0]
\* except: pass
\* return None
TickerSearch(search) ==
  IF search.raises THEN Ret(None)
  ELSE IF Len(search.results) > 0 THEN Ret(search.results[1])
  ELSE Ret(None)

find_company_ticker(name, search) ==
  IF name = NoneName THEN Exc("AttributeError")
  ELSE LET company_lower == Strip(Lower(name))
           hit == AliasLoop(uk_companies, company_lower)
       IN IF hit # None THEN Ret(hit) ELSE TickerSearch(search)

\* The behaviours of the search a call with this name can meet: the search
\* is reached only when the alias loop ends without a match.
SearchFor(name) ==
  IF name # NoneName /\ AliasLoop(uk_companies, Strip(Lower(name))) = None
  THEN SearchBehaviours
  ELSE {NotConsulted}

(***************************************************************************)
(* determine_company_sector: the (sector, keywords) pairs in the order of  *)
(* the if/elif chain.                                                      *)
(***************************************************************************)
sector_keywords ==
  <<
    <<"Financial Services",
      <<<<"b","a","n","k">>,
        <<"h","s","b","c">>,
        <<"b","a","r","c","l","a","y","s">>,
        <<"l","l","o","y","d","s">>,
        <<"r","b","s">>,
        <<"n","a","t","w","e","s","t">>,
        <<"f","i","n","a","n","c","e">>,
        <<"i","n","s","u","r","a","n","c","e">>>> >>,
    <<"Technology",
      <<<<"t","e","c","h">>,
        <<"s","o","f","t","w","a","r","e">>,
        <<"d","i","g","i","t","a","l">>,
        <<"a","i">>,
        <<"c","y","b","e","r">>,
        <<"f","i","n","t","e","c","h">>,
        <<"s","a","g","e">>,
        <<"s","a","g","e">>>> >>,
    <<"Healthcare",
      <<<<"p","h","a","r","m","a">>,
        <<"h","e","a","l","t","h">>,
        <<"m","e","d","i","c","a","l">>,
        <<"b","i","o","t","e","c","h">>,
        <<"g","l","a","x","o">>,
        <<"a","s","t","r","a">>,
        <<"g","s","k">>,
        <<"a","z","n">>>> >>,
    <<"Energy",
      <<<<"o","i","l">>,
        <<"g","a","s">>,
        <<"e","n","e","r","g","y">>,
        <<"b","p">>,
        <<"s","h","e","l","l">>,
        <<"c","e","n","t","r","i","c","a">>,
        <<"n","a","t","i","o","n","a","l"," ","g","r","i","d">>>> >>,
    <<"Manufacturing",
      <<<<"m","a","n","u","f","a","c","t","u","r","i","n","g">>,
        <<"i","n","d","u","s","t","r","i","a","l">>,
        <<"e","n","g","i","n","e","e","r","i","n","g">>,
        <<"r","o","l","l","s">>,
        <<"b","a","e">>,
        <<"w","e","i","r">>>> >>,
    <<"Retail",
      <<<<"r","e","t","a","i","l">>,
        <<"s","h","o","p">>,
        <<"s","t","o","r","e">>,
        <<"t","e","s","c","o">>,
        <<"s","a","i","n","s","b","u","r","y">>,
        <<"m","o","r","r","i","s","o","n","s">>,
        <<"a","s","o","s">>,
        <<"b","o","o","h","o","o">>>> >>,
    <<"Real Estate",
      <<<<"p","r","o","p","e","r","t","y">>,
        <<"r","e","a","l"," ","e","s","t","a","t","e">>,
        <<"l","a","n","d">>,
        <<"b","e","r","k","e","l","e","y">>,
        <<"b","a","r","r","a","t","t">>,
        <<"p","e","r","s","i","m","m","o","n">>>> >>,
    <<"Consumer Goods",
      <<<<"c","o","n","s","u","m","e","r">>,
        <<"u","n","i","l","e","v","e","r">>,
        <<"d","i","a","g","e","o">>,
        <<"b","r","i","t","i","s","h"," ","a","m","e","r","i","c","a","n"," ","t","o","b","a","c","c","o">>,
        <<"i","m","p","e","r","i","a","l">>>> >>,
    <<"Mining",
      <<<<"m","i","n","i","n","g">>,
        <<"r","i","o"," ","t","i","n","t","o">>,
        <<"b","h","p">>,
        <<"a","n","g","l","o"," ","a","m","e","r","i","c","a","n">>,
        <<"g","l","e","n","c","o","r","e">>>> >>,
    <<"Telecommunications",
      <<<<"t","e","l","e","c","o","m">>,
        <<"v","o","d","a","f","o","n","e">>,
        <<"b","t">>,
        <<"b","r","i","t","i","s","h"," ","t","e","l","e","c","o","m">>>> >>,
    <<"Transportation",
      <<<<"a","i","r","l","i","n","e">>,
        <<"e","a","s","y","j","e","t">>,
        <<"b","r","i","t","i","s","h"," ","a","i","r","w","a","y","s">>,
        <<"t","r","a","n","s","p","o","r","t">>>> >>
  >>

\* What the provider's `info` holds; determine_company_sector receives it.
Infos == {[sector |-> ""], [sector |-> "Energy"], [sector |-> "Retail"]}
EmptyInfo == [sector |-> ""]

\* Variant of AnyWordIn: the name has to begin with the word.
AnyWordIn_startswith(words, company_lower) ==
  \E w \in 1..Len(words) :
    /\ Len(words[w]) <= Len(company_lower)
    /\ SubSeq(company_lower, 1, Len(words[w])) = words[w]

\* any(word in company_lower for word in words)
AnyWordIn(words, company_lower) ==
  \E w \in 1..Len(words) : Contains(words[w], company_lower)

RECURSIVE SectorChain(_, _)
SectorChain(company_lower, k) ==
  IF k > Len(sector_keywords) THEN "Other"
  ELSE IF AnyWordIn(sector_keywords[k][2], company_lower)
       THEN sector_keywords[k][1]
  ELSE SectorChain(company_lower, k + 1)

\* Variant of determine_company_sector: the provider's sector, when the
\* metadata has one, is preferred to the keywords.
determine_company_sector_from_info(name, info) ==
  IF info.sector # "" THEN info.sector ELSE SectorChain(Lower(name), 1)

determine_company_sector(name, info) ==
  SectorChain(Lower(name), 1)

(***************************************************************************)
(* Floating point.  A Python float is an IEEE-754 binary64 number: m * 2^e *)
(* with a significand m of 53 bits, and each operation returns the exact   *)
(* result rounded to the nearest such number, ties to the even m.  The     *)
(* scores are never negative and stay far from the ends of the exponent    *)
(* range, so a float here is zero, a positive normal number, or NaN.  A    *)
(* natural number of any size is the sequence of its digits in radix 2^13, *)
(* the lowest first; the empty sequence is 0.                              *)
(***************************************************************************)
LimbBits == 13
Radix == 2^LimbBits
Precision == 53

Max2(a, b) == IF a >= b THEN a ELSE b
Limb(a, i) == IF i \in 1..Len(a) THEN a[i] ELSE 0

RECURSIVE Trim(_)
Trim(xs) ==
  IF xs # <<>> /\ xs[Len(xs)] = 0 THEN Trim(SubSeq(xs, 1, Len(xs) - 1)) ELSE xs

RECURSIVE Carry(_, _, _)
Carry(xs, i, c) ==
  IF i > Len(xs) /\ c = 0 THEN <<>>
  ELSE LET t == Limb(xs, i) + c
       IN <<t % Radix>> \o Carry(xs, i + 1, t \div Radix)

\* the natural number n
BigOf(n) == Trim(Carry(<<n>>, 1, 0))

BAdd(a, b) ==
  Trim(Carry([i \in 1..Max2(Len(a), Len(b)) |-> Limb(a, i) + Limb(b, i)], 1, 0))

RECURSIVE Column(_, _, _, _)
Column(a, b, k, i) ==
  IF i > Len(a) THEN 0
  ELSE (IF k + 1 - i \in 1..Len(b) THEN a[i] * b[k + 1 - i] ELSE 0)
       + Column(a, b, k, i + 1)

BMul(a, b) ==
  IF a = <<>> \/ b = <<>> THEN <<>>
  ELSE Trim(Carry([k \in 1..(Len(a) + Len(b)) |-> Column(a, b, k, 1)], 1, 0))

\* a < b
BLess(a, b) ==
  \/ Len(a) < Len(b)
  \/ /\ Len(a) = Len(b)
     /\ \E i \in 1..Len(a) :
          /\ a[i] < b[i]
          /\ \A j \in (i + 1)..Len(a) : a[j] = b[j]

\* the number of bits of a
BitLen(a) ==
  IF a = <<>> THEN 0
  ELSE LimbBits * (Len(a) - 1)
       + (CHOOSE k \in 1..LimbBits :
            2^(k - 1) <= a[Len(a)] /\ a[Len(a)] < 2^k)

\* a * 2^k
BShiftLeft(a, k) ==
  IF a = <<>> THEN <<>>
  ELSE [i \in 1..(k \div LimbBits) |-> 0] \o BMul(a, <<2^(k % LimbBits)>>)

\* a \div 2^k
BShiftRight(a, k) ==
  LET r == k % LimbBits
      hi == SubSeq(a, (k \div LimbBits) + 1, Len(a))
  IN Trim([i \in 1..Len(hi) |->
             (hi[i] \div 2^r) + (Limb(hi, i + 1) % 2^r) * 2^(LimbBits - r)])

\* bit j of a (bit 0 is the lowest), and whether a bit below j is set
BBit(a, j) == (Limb(a, (j \div LimbBits) + 1) \div 2^(j % LimbBits)) % 2
BLowBits(a, j) ==
  \/ \E i \in 1..(j \div LimbBits) : Limb(a, i) # 0
  \/ Limb(a, (j \div LimbBits) + 1) % 2^(j % LimbBits) # 0

\* a % n for 0 < n < 2^17, taken over the digits from i upwards
RECURSIVE BRem(_, _, _)
BRem(a, i, n) ==
  IF i > Len(a) THEN 0 ELSE (BRem(a, i + 1, n) * Radix + a[i]) % n

\* a \div n
BDiv(a, n) ==
  Trim([i \in 1..Len(a) |-> (BRem(a, i + 1, n) * Radix + a[i]) \div n])

FloatZero == [kind |-> "float", m |-> <<>>, e |-> 0]
FloatNaN == [kind |-> "nan", m |-> <<>>, e |-> 0]
IsNaN(x) == x.kind = "nan"

\* the float m * 2^e of a significand m of exactly Precision bits
Float(m, e) == [kind |-> "float", m |-> m, e |-> e]

\* q * 2^e after rounding: q has one bit too many when rounding up carried
Renormal(q, e) ==
  IF BitLen(q) > Precision THEN Float(BShiftRight(q, 1), e + 1)
  ELSE Float(q, e)

\* q rounded up when the dropped bits are above a half, or are a half and q
\* is odd
RoundedUp(q, half, below) ==
  IF half /\ (below \/ q[1] % 2 = 1) THEN BAdd(q, <<1>>) ELSE q

\* N * 2^e rounded, N having s bits more than the precision
RoundBits(N, e, inexact, s) ==
  IF s <= 0 THEN Float(BShiftLeft(N, -s), e + s)
  ELSE Renormal(RoundedUp(BShiftRight(N, s), BBit(N, s - 1) = 1,
                          inexact \/ BLowBits(N, s - 1)),
                e + s)

\* The float nearest to N * 2^e, for a natural N; inexact says that N stands
\* for a value slightly above N (a division with a remainder).
Round(N, e, inexact) ==
  IF N = <<>> THEN FloatZero
  ELSE RoundBits(N, e, inexact, BitLen(N) - Precision)

\* n * 2^k divided by d and rounded to the float nearest to value * 2^e, for
\* a natural N = n * 2^k
Quotient(N, d, e) == Round(BDiv(N, d), e, BRem(N, 1, d) # 0)

\* the literal n/d written in decimal (0.75 is Dec(75, 100)), and float(n)
Dec(n, d) ==
  Quotient(BShiftLeft(BigOf(n), 6 * LimbBits), d, -(6 * LimbBits))

\* x * y
FMul(x, y) ==
  IF IsNaN(x) \/ IsNaN(y) THEN FloatNaN
  ELSE Round(BMul(x.m, y.m), x.e + y.e, FALSE)

\* x + y
RECURSIVE FAdd(_, _)
FAdd(x, y) ==
  IF IsNaN(x) \/ IsNaN(y) THEN FloatNaN
  ELSE IF x.m = <<>> THEN y
  ELSE IF y.m = <<>> THEN x
  ELSE IF x.e <= y.e
  THEN Round(BAdd(x.m, BShiftLeft(y.m, y.e - x.e)), x.e, FALSE)
  ELSE FAdd(y, x)

\* x / n for an integer n > 0
FDivInt(x, n) ==
  IF IsNaN(x) THEN FloatNaN
  ELSE Quotient(BShiftLeft(x.m, 5 * LimbBits), n, x.e - 5 * LimbBits)

\* x < y, x > y, x <= y: False when either is NaN
FLess(x, y) ==
  /\ ~IsNaN(x) /\ ~IsNaN(y)
  /\ y.m # <<>>
  /\ \/ x.m = <<>>
     \/ x.e < y.e
     \/ x.e = y.e /\ BLess(x.m, y.m)
FGreater(x, y) == FLess(y, x)
FLessEq(x, y) == ~IsNaN(x) /\ ~IsNaN(y) /\ ~FLess(y, x)

\* min(a, b) of Python: b when b < a, otherwise a
Min2(a, b) == IF FLess(b, a) THEN b ELSE a

\* res += a[i] for the items from i on
RECURSIVE SeqSum(_, _, _)
SeqSum(vs, i, res) ==
  IF i > Len(vs) THEN res ELSE SeqSum(vs, i + 1, FAdd(res, vs[i]))

\* r[j] += a[i + j] for the blocks of 8 from block b on
RECURSIVE LaneSum(_, _, _, _, _)
LaneSum(vs, j, b, blocks, r) ==
  IF b >= blocks THEN r
  ELSE LaneSum(vs, j, b + 1, blocks, FAdd(r, vs[8 * b + j]))

\* (r[lo] + ... ) + ( ... + r[hi]), the two halves summed the same way:
\* ((r[0] + r[1]) + (r[2] + r[3])) + ((r[4] + r[5]) + (r[6] + r[7])) for eight
RECURSIVE HalvesSum(_, _, _)
HalvesSum(r, lo, hi) ==
  IF lo = hi THEN r[lo]
  ELSE FAdd(HalvesSum(r, lo, (lo + hi) \div 2),
            HalvesSum(r, ((lo + hi) \div 2) + 1, hi))

\* The pairwise summation of np.add.reduce: a plain loop below 8 items, eight
\* interleaved partial sums up to 128 items, two halves above.
RECURSIVE PairwiseSum(_)
PairwiseSum(vs) ==
  IF Len(vs) < 8 THEN SeqSum(vs, 1, FloatZero)
  ELSE IF Len(vs) <= 128
  THEN SeqSum(vs, 8 * (Len(vs) \div 8) + 1,
              HalvesSum([j \in 1..8 |->
                           LaneSum(vs, j, 1, Len(vs) \div 8, vs[j])], 1, 8))
  ELSE HalvesSum(<<PairwiseSum(SubSeq(vs, 1, 8 * (Len(vs) \div 16))),
                   PairwiseSum(SubSeq(vs, 8 * (Len(vs) \div 16) + 1, Len(vs)))>>,
                 1, 2)

\* np.mean(values): the sum divided by the count; NaN for no values
NpMean(vs) ==
  IF vs = <<>> THEN FloatNaN ELSE FDivInt(PairwiseSum(vs), Len(vs))

(***************************************************************************)
(* Score mappings.  A dict is the sequence of its <<key, value>> items in  *)
(* insertion order, which list(d.values()) and so the rounding of a sum    *)
(* follow; a literal is a sequence of pairs, a later pair overriding the   *)
(* value of an earlier one with the same key.                              *)
(***************************************************************************)
\* 1.0
One == Dec(1, 1)

DictOf(pairs) == DictItems(pairs)

EmptyDict == DictOf(<<>>)

Keys(d) == {d[i][1] : i \in 1..Len(d)}
\* list(d.values())
Values(d) == [i \in 1..Len(d) |-> d[i][2]]

\* {**a, **b}
Merge(a, b) == DictOf(a \o b)

\* len(m)
Count(m) == Len(m)

\* np.mean(list(m.values())) of a literal table
TableMean(m) == NpMean(Values(m))

brexit_impact ==
  DictOf(<< <<"Trade Relations", Dec(7, 10)>>, <<"Financial Services", Dec(8, 10)>>,
            <<"Labor Market", Dec(6, 10)>>, <<"Regulatory Environment", Dec(7, 10)>> >>)
eu_relations ==
  DictOf(<< <<"Trade Agreements", Dec(6, 10)>>, <<"Financial Passporting", Dec(8, 10)>>,
            <<"Regulatory Alignment", Dec(7, 10)>>, <<"Political Cooperation", Dec(5, 10)>> >>)
global_trade ==
  DictOf(<< <<"US-China Relations", Dec(8, 10)>>, <<"Supply Chain Disruption", Dec(9, 10)>>,
            <<"Commodity Prices", Dec(7, 10)>>, <<"Currency Volatility", Dec(6, 10)>> >>)

calculate_geopolitical_risk_score ==
  DictOf(<< <<"Brexit Impact", TableMean(brexit_impact)>>,
            <<"EU Relations", TableMean(eu_relations)>>,
            <<"Global Trade Tensions", TableMean(global_trade)>> >>)

analyze_supply_chain_dynamics ==
  DictOf(<<
    <<"Manufacturing",
      DictOf(<< <<"Capacity Utilization", Dec(75, 100)>>, <<"Input Cost Inflation", Dec(8, 10)>>,
                <<"Lead Times", Dec(7, 10)>>, <<"Inventory Levels", Dec(6, 10)>> >>)>>,
    <<"Services",
      DictOf(<< <<"Digital Infrastructure", Dec(6, 10)>>,
                <<"Skilled Labor Availability", Dec(7, 10)>>,
                <<"Regulatory Compliance", Dec(5, 10)>>,
                <<"International Competition", Dec(8, 10)>> >>)>>,
    <<"Energy",
      DictOf(<< <<"Energy Security", Dec(8, 10)>>, <<"Price Volatility", Dec(9, 10)>>,
                <<"Infrastructure Investment", Dec(6, 10)>>,
                <<"Green Transition", Dec(7, 10)>> >>)>> >>)

fdi_factors ==
  DictOf(<< <<"Political Stability", Dec(6, 10)>>, <<"Regulatory Environment", Dec(7, 10)>>,
            <<"Market Access", Dec(8, 10)>>, <<"Infrastructure Quality", Dec(7, 10)>> >>)
portfolio_factors ==
  DictOf(<< <<"Market Liquidity", Dec(8, 10)>>, <<"Currency Stability", Dec(6, 10)>>,
            <<"Interest Rate Environment", Dec(7, 10)>>,
            <<"Economic Growth Prospects", Dec(6, 10)>> >>)
currency_factors ==
  DictOf(<< <<"Trade Balance", Dec(7, 10)>>, <<"Interest Rate Differential", Dec(6, 10)>>,
            <<"Political Risk", Dec(7, 10)>>, <<"Economic Fundamentals", Dec(6, 10)>> >>)

evaluate_capital_flows ==
  DictOf(<< <<"FDI Attractiveness", TableMean(fdi_factors)>>,
            <<"Portfolio Investment", TableMean(portfolio_factors)>>,
            <<"Currency Strength", TableMean(currency_factors)>> >>)

geopolitical_sector_adjustments ==
  DictOf(<< <<"Financial Services", Dec(12, 10)>>, <<"Technology", Dec(8, 10)>>,
            <<"Healthcare", Dec(9, 10)>>, <<"Energy", Dec(11, 10)>>, <<"Manufacturing", Dec(1, 1)>>,
            <<"Retail", Dec(9, 10)>>, <<"Real Estate", Dec(8, 10)>>, <<"Consumer Goods", Dec(9, 10)>>,
            <<"Mining", Dec(11, 10)>>, <<"Telecommunications", Dec(9, 10)>>,
            <<"Transportation", Dec(1, 1)>> >>)

capital_flow_sector_adjustments ==
  DictOf(<< <<"Financial Services", Dec(11, 10)>>, <<"Technology", Dec(9, 10)>>,
            <<"Healthcare", Dec(8, 10)>>, <<"Energy", Dec(1, 1)>>, <<"Manufacturing", Dec(1, 1)>>,
            <<"Retail", Dec(9, 10)>>, <<"Real Estate", Dec(12, 10)>>, <<"Consumer Goods", Dec(9, 10)>>,
            <<"Mining", Dec(11, 10)>>, <<"Telecommunications", Dec(1, 1)>>,
            <<"Transportation", Dec(1, 1)>> >>)

\* d.get(key, default)
Get(d, key, default) ==
  IF key \in Keys(d)
  THEN d[CHOOSE i \in 1..Len(d) : d[i][1] = key][2]
  ELSE default

\* Variant of Adjusted: the adjustment is added and the result is not clamped.
Adjusted_sum(base, adjustment) ==
  [i \in 1..Len(base) |-> <<base[i][1], FAdd(base[i][2], adjustment)>>]

\* Variant of Adjusted: max in place of min.
Adjusted_max(base, adjustment) ==
  [i \in 1..Len(base) |->
     <<base[i][1],
       IF FLess(One, FMul(base[i][2], adjustment))
       THEN FMul(base[i][2], adjustment) ELSE One>>]

\* {risk: min(1.0, score * adjustment) for risk, score in base.items()}
Adjusted(base, adjustment) ==
  [i \in 1..Len(base) |->
     <<base[i][1], Min2(One, FMul(base[i][2], adjustment))>>]

calculate_company_geopolitical_risk(sec, info) ==
  Adjusted(calculate_geopolitical_risk_score,
           Get(geopolitical_sector_adjustments, sec, One))

company_factors ==
  DictOf(<< <<"International Exposure", Dec(7, 10)>>,
            <<"Supply Chain Complexity", Dec(6, 10)>>,
            <<"Digital Transformation", Dec(5, 10)>>,
            <<"Domestic Sourcing", Dec(4, 10)>> >>)

\* Variant of calculate_company_supply_chain_risk: the combined metrics are
\* multiplied by the sector's geopolitical adjustment, as the other two
\* mappings are by theirs.
calculate_company_supply_chain_risk_adjusted(sec, info) ==
  Adjusted(Merge(Get(analyze_supply_chain_dynamics, sec, EmptyDict),
                 company_factors),
           Get(geopolitical_sector_adjustments, sec, One))

\* Variant of calculate_company_supply_chain_risk: the sector's table is
\* returned without the company factors.
calculate_company_supply_chain_risk_sector_only(sec, info) ==
  Get(analyze_supply_chain_dynamics, sec, EmptyDict)

calculate_company_supply_chain_risk(sec, info) ==
  Merge(Get(analyze_supply_chain_dynamics, sec, EmptyDict), company_factors)

\* Variant of calculate_company_capital_flow_risk: it reads the multipliers of
\* the geopolitical category.
calculate_company_capital_flow_risk_geo(sec, info) ==
  Adjusted(evaluate_capital_flows,
           Get(geopolitical_sector_adjustments, sec, One))

calculate_company_capital_flow_risk(sec, info) ==
  Adjusted(evaluate_capital_flows,
           Get(capital_flow_sector_adjustments, sec, One))

(***************************************************************************)
(* Price data and statistics.  A DataFrame is its row count, whether it    *)
(* has a Close column, and that column.  A number is exact: a reduced      *)
(* fraction n/d, NaN, a signed infinity, or the square root of a fraction. *)
(***************************************************************************)
Frame(closes) == [rows |-> Len(closes), hasClose |-> TRUE, Close |-> closes]
\* pd.DataFrame()
EmptyFrame == [rows |-> 0, hasClose |-> FALSE, Close |-> <<>>]
\* rows of other columns only: data['Close'] raises KeyError
NoCloseFrame(n) == [rows |-> n, hasClose |-> FALSE, Close |-> <<>>]
\* data.empty
IsEmptyFrame(data) == data.rows = 0

Abs(x) == IF x < 0 THEN -x ELSE x

RECURSIVE GCD(_, _)
GCD(a, b) == IF b = 0 THEN a ELSE GCD(b, a % b)

Rat(n, d) ==
  LET g == GCD(Abs(n), Abs(d))
      s == IF d < 0 THEN -1 ELSE 1
  IN [kind |-> "rat", n |-> (s * n) \div g, d |-> (s * d) \div g]
Zero == Rat(0, 1)
NaN == [kind |-> "nan", n |-> 0, d |-> 0]
\* +inf (s = 1) or -inf (s = -1)
Inf(s) == [kind |-> "inf", n |-> s, d |-> 0]
\* the square root of the fraction x
SqrtOf(x) == [kind |-> "sqrt", n |-> x.n, d |-> x.d]

RAdd(x, y) == Rat(x.n * y.d + y.n * x.d, x.d * y.d)
RSub(x, y) == Rat(x.n * y.d - y.n * x.d, x.d * y.d)
RMul(x, y) == Rat(x.n * y.n, x.d * y.d)
RDiv(x, y) == Rat(x.n * y.d, x.d * y.n)
RLess(x, y) == x.n * y.d < y.n * x.d

\* Variant of PctChange: every close is compared with the first close of the
\* series instead of the close before it.
PctChange_since_first(closes) ==
  [t \in 1..(Len(closes) - 1) |->
     RSub(RDiv(Rat(closes[t + 1], 1), Rat(closes[1], 1)), Rat(1, 1))]

\* data['Close'].pct_change().dropna()
PctChange(closes) ==
  [t \in 1..(Len(closes) - 1) |->
     RSub(RDiv(Rat(closes[t + 1], 1), Rat(closes[t], 1)), Rat(1, 1))]

RECURSIVE RSum(_, _)
RSum(xs, i) == IF i > Len(xs) THEN Zero ELSE RAdd(xs[i], RSum(xs, i + 1))

RECURSIVE RProd(_, _)
RProd(xs, i) == IF i > Len(xs) THEN Rat(1, 1) ELSE RMul(xs[i], RProd(xs, i + 1))

\* returns.mean() of a non-empty series
SeriesMean(xs) == RDiv(RSum(xs, 1), Rat(Len(xs), 1))

\* the sample variance (ddof = 1): NaN for a single observation
SeriesVar(xs) ==
  IF Len(xs) < 2 THEN NaN
  ELSE LET m == SeriesMean(xs)
           sq == [i \in 1..Len(xs) |-> RMul(RSub(xs[i], m), RSub(xs[i], m))]
       IN RDiv(RSum(sq, 1), Rat(Len(xs) - 1, 1))

\* returns.std()
SeriesStd(xs) ==
  LET v == SeriesVar(xs)
  IN IF v.kind = "nan" THEN NaN
     ELSE IF v.n = 0 THEN Zero
     ELSE SqrtOf(v)

\* x > 0, as the comparison of floats decides it (NaN > 0 is False)
IsPositive(x) ==
  \/ x.kind = "rat" /\ x.n > 0
  \/ x.kind = "sqrt" /\ x.n > 0
  \/ x.kind = "inf" /\ x.n > 0

\* x * c for a fraction c > 0
Scale(x, c) ==
  CASE x.kind = "rat" -> RMul(x, c)
    [] x.kind = "sqrt" -> SqrtOf(RMul(Rat(x.n, x.d), RMul(c, c)))
    [] OTHER -> x

\* x * sqrt(c) for a fraction c > 0
ScaleBySqrt(x, c) ==
  CASE x.kind = "rat" /\ x.n = 0 -> x
    [] x.kind = "sqrt" -> SqrtOf(RMul(Rat(x.n, x.d), c))
    [] OTHER -> x

\* (mean / std) * np.sqrt(252) with float division: x/0 is an infinity, 0/0
\* and anything with NaN is NaN; otherwise the signed root of 252 mean^2 / var
SharpeOf(mean, std) ==
  IF std.kind = "nan" THEN NaN
  ELSE IF std.kind = "rat"
       THEN (IF mean.n = 0 THEN NaN ELSE Inf(IF mean.n > 0 THEN 1 ELSE -1))
  ELSE IF mean.n = 0 THEN Zero
  ELSE [kind |-> IF mean.n > 0 THEN "sqrt" ELSE "negsqrt",
        n |-> RMul(Rat(252, 1), RDiv(RMul(mean, mean), Rat(std.n, std.d))).n,
        d |-> RMul(Rat(252, 1), RDiv(RMul(mean, mean), Rat(std.n, std.d))).d]

\* Variant of RunningMax: the maximum of the whole series at every row.
RunningMax_whole(closes, t) ==
  CHOOSE m \in {closes[i] : i \in 1..Len(closes)} :
    \A i \in 1..Len(closes) : closes[i] <= m

\* data['Close'].expanding().max() at row t
RunningMax(closes, t) ==
  CHOOSE m \in {closes[i] : i \in 1..t} : \A i \in 1..t : closes[i] <= m

RMin(xs) ==
  xs[CHOOSE i \in 1..Len(xs) : \A j \in 1..Len(xs) : ~RLess(xs[j], xs[i])]
RMax(xs) ==
  xs[CHOOSE i \in 1..Len(xs) : \A j \in 1..Len(xs) : ~RLess(xs[i], xs[j])]

\* ((data['Close'] / data['Close'].expanding().max() - 1) * 100).min()
MaxDrawdownPct(closes) ==
  RMin([t \in 1..Len(closes) |->
          RMul(RSub(Rat(closes[t], RunningMax(closes, t)), Rat(1, 1)),
               Rat(100, 1))])

MetricKeys ==
  {"Current Price", "Price Change (%)", "Volatility (%)",
   "Annualized Return (%)", "Sharpe Ratio", "Max Drawdown (%)"}

\* Variant of calculate_financial_metrics: 'Price Change (%)' reads
\* data['Close'].iloc[-2] without the len(data) > 1 test.
calculate_financial_metrics_unguarded(data, info) ==
  IF IsEmptyFrame(data) THEN Ret(EmptyDict)
  ELSE IF ~data.hasClose THEN Exc("KeyError")
  ELSE IF Len(data.Close) < 2 THEN Exc("IndexError")
  ELSE Ret([k \in MetricKeys |-> Zero])

\* UKInvestmentStrategy.calculate_financial_metrics(data, info)
calculate_financial_metrics(data, info) ==
  IF IsEmptyFrame(data) THEN Ret(EmptyDict)
  ELSE IF ~data.hasClose THEN Exc("KeyError")
  ELSE
    LET c == data.Close
        n == Len(c)
        returns == PctChange(c)
        none == Len(returns) = 0
    IN Ret(
      [k \in MetricKeys |->
        CASE k = "Current Price" -> Rat(c[n], 1)
          [] k = "Price Change (%)" ->
               IF n > 1 THEN Rat((c[n] - c[n - 1]) * 100, c[n - 1]) ELSE Zero
          [] k = "Volatility (%)" ->
               IF ~none THEN Scale(SeriesStd(returns), Rat(100, 1)) ELSE Zero
          [] k = "Annualized Return (%)" ->
               IF ~none THEN RMul(SeriesMean(returns), Rat(252 * 100, 1))
               ELSE Zero
          [] k = "Sharpe Ratio" ->
               IF ~none /\ IsPositive(SeriesStd(returns))
               THEN SharpeOf(SeriesMean(returns), SeriesStd(returns))
               ELSE Zero
          [] k = "Max Drawdown (%)" -> MaxDrawdownPct(c)])

\* None where app.py expects a frame (get_stock_data failed)
NoData == [rows |-> -1, hasClose |-> FALSE, Close |-> <<>>]
\* a value that is None or a series, and None where a dict is expected
NoSeries == [none |-> TRUE, values |-> <<>>]
Series(xs) == [none |-> FALSE, values |-> xs]
NoneValue == [none |-> TRUE]
IsNoneValue(x) == DOMAIN x = {"none"}

\* app.calculate_daily_returns(data)
calculate_daily_returns(data) ==
  IF data = NoData \/ IsEmptyFrame(data) THEN Ret(NoSeries)
  ELSE IF ~data.hasClose THEN Exc("KeyError")
  ELSE Ret(Series(PctChange(data.Close)))

StatKeys ==
  {"Mean Daily Return (%)", "Standard Deviation (%)", "Annualized Return (%)",
   "Annualized Volatility (%)", "Sharpe Ratio", "Min Daily Return (%)",
   "Max Daily Return (%)", "Total Return (%)"}

\* app.calculate_statistics(returns)
calculate_statistics(rs) ==
  IF rs.none \/ Len(rs.values) = 0 THEN Ret(NoneValue)
  ELSE
    LET returns == rs.values
        mean == SeriesMean(returns)
        std == SeriesStd(returns)
        hundred == Rat(100, 1)
    IN Ret(
      [k \in StatKeys |->
        CASE k = "Mean Daily Return (%)" -> RMul(mean, hundred)
          [] k = "Standard Deviation (%)" -> Scale(std, hundred)
          [] k = "Annualized Return (%)" -> RMul(mean, Rat(252 * 100, 1))
          [] k = "Annualized Volatility (%)" ->
               ScaleBySqrt(Scale(std, hundred), Rat(252, 1))
          [] k = "Sharpe Ratio" -> SharpeOf(mean, std)
          [] k = "Min Daily Return (%)" -> RMul(RMin(returns), hundred)
          [] k = "Max Daily Return (%)" -> RMul(RMax(returns), hundred)
          [] k = "Total Return (%)" ->
               RMul(RSub(RProd([i \in 1..Len(returns) |->
                                  RAdd(returns[i], Rat(1, 1))], 1),
                         Rat(1, 1)), hundred)])

(***************************************************************************)
(* generate_company_recommendation.                                        *)
(***************************************************************************)
\* np.mean(list(m.values())): NaN for an empty mapping
MeanOf(m) == NpMean(Values(m))

RecommendationKeys ==
  {"overall_risk_score", "recommendation", "confidence", "key_insights",
   "risk_breakdown"}

\* the weights, the thresholds of the labels and the threshold of the insights
GeopoliticalWeight == Dec(4, 10)
SupplyChainWeight == Dec(3, 10)
CapitalFlowWeight == Dec(3, 10)
StrongBuyBelow == Dec(4, 10)
BuyBelow == Dec(6, 10)
HoldBelow == Dec(8, 10)
InsightAbove == Dec(7, 10)

\* Variant of overall_risk: the third weight repeats the first (0.4, 0.3, 0.4).
overall_risk_weights(avg_geopolitical, avg_supply_chain, avg_capital_flow) ==
  FAdd(FAdd(FMul(avg_geopolitical, GeopoliticalWeight),
            FMul(avg_supply_chain, SupplyChainWeight)),
       FMul(avg_capital_flow, GeopoliticalWeight))

\* Variant of overall_risk: the plain mean of the three averages.
overall_risk_unweighted(avg_geopolitical, avg_supply_chain, avg_capital_flow) ==
  FDivInt(FAdd(FAdd(avg_geopolitical, avg_supply_chain), avg_capital_flow), 3)

\* (avg_geopolitical * 0.4 + avg_supply_chain * 0.3 + avg_capital_flow * 0.3)
overall_risk(avg_geopolitical, avg_supply_chain, avg_capital_flow) ==
  FAdd(FAdd(FMul(avg_geopolitical, GeopoliticalWeight),
            FMul(avg_supply_chain, SupplyChainWeight)),
       FMul(avg_capital_flow, CapitalFlowWeight))

\* Variant of recommendation_and_confidence: the thresholds compared with <=.
recommendation_and_confidence_inclusive(score) ==
  IF FLessEq(score, StrongBuyBelow) THEN <<"Strong Buy", "High">>
  ELSE IF FLessEq(score, BuyBelow) THEN <<"Buy", "Medium">>
  ELSE IF FLessEq(score, HoldBelow) THEN <<"Hold", "Medium">>
  ELSE <<"Sell", "High">>

\* Variant of recommendation_and_confidence: the branches of Buy and Hold
\* exchanged.
recommendation_and_confidence_swapped(score) ==
  IF FLess(score, StrongBuyBelow) THEN <<"Strong Buy", "High">>
  ELSE IF FLess(score, BuyBelow) THEN <<"Hold", "Medium">>
  ELSE IF FLess(score, HoldBelow) THEN <<"Buy", "Medium">>
  ELSE <<"Sell", "High">>

\* if overall_risk < 0.4: ... elif < 0.6: ... elif < 0.8: ... else: ...
recommendation_and_confidence(score) ==
  IF FLess(score, StrongBuyBelow) THEN <<"Strong Buy", "High">>
  ELSE IF FLess(score, BuyBelow) THEN <<"Buy", "Medium">>
  ELSE IF FLess(score, HoldBelow) THEN <<"Hold", "Medium">>
  ELSE <<"Sell", "High">>

\* Variant of insights: an average of 0.7 is already flagged (>= 0.7).
insights_inclusive(avg_geopolitical, avg_supply_chain, avg_capital_flow) ==
  (IF FLessEq(InsightAbove, avg_geopolitical)
   THEN <<"High geopolitical risk exposure">> ELSE <<>>)
  \o (IF FLessEq(InsightAbove, avg_supply_chain)
      THEN <<"Supply chain vulnerabilities identified">> ELSE <<>>)
  \o (IF FLessEq(InsightAbove, avg_capital_flow)
      THEN <<"Sensitive to capital flow changes">> ELSE <<>>)

\* insights = []; if avg_... > 0.7: insights.append(...), three times
insights(avg_geopolitical, avg_supply_chain, avg_capital_flow) ==
  (IF FGreater(avg_geopolitical, InsightAbove)
   THEN <<"High geopolitical risk exposure">> ELSE <<>>)
  \o (IF FGreater(avg_supply_chain, InsightAbove)
      THEN <<"Supply chain vulnerabilities identified">> ELSE <<>>)
  \o (IF FGreater(avg_capital_flow, InsightAbove)
      THEN <<"Sensitive to capital flow changes">> ELSE <<>>)

\* Variant of generate_company_recommendation: a falling price lowers the
\* confidence to Medium.
generate_company_recommendation_priced(geo, supply, capital, metrics) ==
  LET avg_geopolitical == MeanOf(geo)
      avg_supply_chain == MeanOf(supply)
      avg_capital_flow == MeanOf(capital)
      score == overall_risk(avg_geopolitical, avg_supply_chain,
                            avg_capital_flow)
      falling == /\ "Price Change (%)" \in DOMAIN metrics
                 /\ metrics["Price Change (%)"].n < 0
  IN [overall_risk_score |-> score,
      recommendation |-> recommendation_and_confidence(score)[1],
      confidence |-> IF falling THEN "Medium"
                     ELSE recommendation_and_confidence(score)[2],
      key_insights |-> insights(avg_geopolitical, avg_supply_chain,
                                avg_capital_flow),
      risk_breakdown |-> [geopolitical |-> avg_geopolitical,
                          supply_chain |-> avg_supply_chain,
                          capital_flow |-> avg_capital_flow]]

generate_company_recommendation(geo, supply, capital, metrics) ==
  LET avg_geopolitical == MeanOf(geo)
      avg_supply_chain == MeanOf(supply)
      avg_capital_flow == MeanOf(capital)
      score == overall_risk(avg_geopolitical, avg_supply_chain,
                            avg_capital_flow)
  IN [overall_risk_score |-> score,
      recommendation |-> recommendation_and_confidence(score)[1],
      confidence |-> recommendation_and_confidence(score)[2],
      key_insights |-> insights(avg_geopolitical, avg_supply_chain,
                                avg_capital_flow),
      risk_breakdown |-> [geopolitical |-> avg_geopolitical,
                          supply_chain |-> avg_supply_chain,
                          capital_flow |-> avg_capital_flow]]

(***************************************************************************)
(* The analyzer object.                                                    *)
(***************************************************************************)
\* UKInvestmentStrategy(): the attributes __init__ sets
UKInvestmentStrategy ==
  [uk_market_indices |->
     DictOf(<< <<"FTSE 100", "^FTSE">>, <<"FTSE 250", "^FTMC">>,
               <<"FTSE All-Share", "^FTAS">>, <<"GBP/USD", "GBPUSD=X">>,
               <<"GBP/EUR", "GBPEUR=X">>, <<"UK 10Y Bond", "^TNX">> >>),
   geopolitical_risk_factors |->
     DictOf(<< <<"Brexit Impact", Dec(8, 10)>>, <<"EU Relations", Dec(7, 10)>>,
               <<"US-UK Relations", Dec(6, 10)>>,
               <<"Global Trade Tensions", Dec(9, 10)>>,
               <<"Energy Security", Dec(8, 10)>>,
               <<"Financial Services Regulation", Dec(7, 10)>> >>),
   supply_chain_indicators |->
     DictOf(<< <<"Port Congestion", Dec(6, 10)>>, <<"Shipping Costs", Dec(8, 10)>>,
               <<"Raw Material Availability", Dec(7, 10)>>,
               <<"Manufacturing Capacity", Dec(5, 10)>>,
               <<"Transportation Infrastructure", Dec(6, 10)>> >>),
   capital_flow_metrics |->
     DictOf(<< <<"FDI Inflows", Dec(7, 10)>>, <<"Portfolio Investment", Dec(8, 10)>>,
               <<"Currency Strength", Dec(6, 10)>>,
               <<"Interest Rate Differential", Dec(7, 10)>>,
               <<"Political Stability", Dec(6, 10)>> >>)]

(***************************************************************************)
(* get_company_data and the market data provider.                          *)
(***************************************************************************)
\* the sequences over S of length at most n
SeqsUpTo(S, n) == UNION {[1..k -> S] : k \in 0..n}

\* What yf.Ticker(ticker).history(period="1y") and .info do: history raises,
\* or returns a frame and then info raises or returns the metadata.
ProviderFrames ==
  {Frame(c) : c \in SeqsUpTo(1..MaxPrice, MaxBars)} \cup {NoCloseFrame(1)}
ProviderBehaviours ==
  {[historyRaises |-> TRUE, history |-> EmptyFrame,
    infoRaises |-> FALSE, info |-> EmptyInfo]}
  \cup {[historyRaises |-> FALSE, history |-> f,
         infoRaises |-> TRUE, info |-> EmptyInfo] : f \in ProviderFrames}
  \cup {[historyRaises |-> FALSE, history |-> f,
         infoRaises |-> FALSE, info |-> i] : f \in ProviderFrames, i \in Infos}

\* Variant of get_company_data: no try/except around the provider calls.
get_company_data_unguarded(tick, b) ==
  IF b.historyRaises \/ b.infoRaises
  THEN Exc("ProviderError")
  ELSE Ret(<<b.history, b.info>>)

\* Variant of get_company_data: a failure of company.info costs the metadata
\* only, the history fetched before it is returned.
get_company_data_keeps_history(tick, b) ==
  IF b.historyRaises
  THEN Ret(<<EmptyFrame, EmptyInfo>>)
  ELSE Ret(<<b.history, IF b.infoRaises THEN EmptyInfo ELSE b.info>>)

\* try: ... return data, info   except Exception: return pd.DataFrame(), {}
get_company_data(tick, b) ==
  IF b.historyRaises \/ b.infoRaises
  THEN Ret(<<EmptyFrame, EmptyInfo>>)
  ELSE Ret(<<b.history, b.info>>)

(***************************************************************************)
(* analyze_company and perform_company_analysis, one step per call made.   *)
(***************************************************************************)
Requests == {1, 2}

AnalysisKeys ==
  {"company_name", "ticker", "sector", "geopolitical_risk",
   "supply_chain_risk", "capital_flow_risk", "financial_metrics",
   "recommendation", "price_data"}

\* Variant of Falsy: the `if not ticker` test left out.
Falsy_never(t) == FALSE

\* not ticker
Falsy(t) == t = None \/ t = ""

\* Variant of analyze_company_except: the exception is raised again.
analyze_company_reraise(e) == [raised |-> TRUE, result |-> [pending |-> TRUE]]

\* except Exception as e: return {"error": f"Error analyzing company: {str(e)}"}
analyze_company_except(e) ==
  [raised |-> FALSE, result |-> [error |-> <<"Error analyzing company: ", e>>]]

\* Variant of perform_company_analysis_result: with fewer than 2 bars it
\* returns what it has so far together with an error.
perform_company_analysis_result_partial(a) ==
  IF a.data.rows < 2
  THEN [company_name |-> a.company_name, ticker |-> a.ticker,
        sector |-> a.sector,
        error |-> <<"Insufficient data for ", a.ticker>>]
  ELSE [company_name |-> a.company_name, ticker |-> a.ticker,
        sector |-> a.sector, geopolitical_risk |-> a.geopolitical_risk,
        supply_chain_risk |-> a.supply_chain_risk,
        capital_flow_risk |-> a.capital_flow_risk,
        financial_metrics |-> a.financial_metrics,
        recommendation |-> a.recommendation, price_data |-> a.data]

\* the dict perform_company_analysis returns, built from its locals a
perform_company_analysis_result(a) ==
  [company_name |-> a.company_name, ticker |-> a.ticker, sector |-> a.sector,
   geopolitical_risk |-> a.geopolitical_risk,
   supply_chain_risk |-> a.supply_chain_risk,
   capital_flow_risk |-> a.capital_flow_risk,
   financial_metrics |-> a.financial_metrics,
   recommendation |-> a.recommendation, price_data |-> a.data]

Unset == "unset"
NoBehaviour ==
  [historyRaises |-> FALSE, history |-> NoData,
   infoRaises |-> FALSE, info |-> EmptyInfo]
NoResult == [pending |-> TRUE]

\* the locals of a call that has not started
Fresh(r, position) ==
  /\ pc' = [pc EXCEPT ![r] = position]
  /\ ticker' = [ticker EXCEPT ![r] = Unset]
  /\ company_data' = [company_data EXCEPT ![r] = <<NoData, EmptyInfo>>]
  /\ sector' = [sector EXCEPT ![r] = Unset]
  /\ geopolitical_risk' = [geopolitical_risk EXCEPT ![r] = EmptyDict]
  /\ supply_chain_risk' = [supply_chain_risk EXCEPT ![r] = EmptyDict]
  /\ capital_flow_risk' = [capital_flow_risk EXCEPT ![r] = EmptyDict]
  /\ financial_metrics' = [financial_metrics EXCEPT ![r] = EmptyDict]
  /\ recommendation' = [recommendation EXCEPT ![r] = NoResult]
  /\ result' = [result EXCEPT ![r] = NoResult]
  /\ trace' = [trace EXCEPT ![r] = <<>>]
  /\ provider' = [provider EXCEPT ![r] = NoBehaviour]
  /\ fault' = [fault EXCEPT ![r] = ""]

\* return res
Return(r, res) ==
  /\ result' = [result EXCEPT ![r] = res]
  /\ pc' = [pc EXCEPT ![r] = "returned"]

\* exception e reaches the except clause of analyze_company
Handle(r, e) ==
  LET h == analyze_company_except(e)
  IN /\ fault' = [fault EXCEPT ![r] = e]
     /\ result' = [result EXCEPT ![r] = h.result]
     /\ pc' = [pc EXCEPT ![r] = IF h.raised THEN "raised" ELSE "returned"]

\* Variant of AfterCall: calculate_company_geopolitical_risk keeps the
\* sector's multiplier in self.geopolitical_risk_factors.
AfterCall_stored(self, method) ==
  IF method = "calculate_company_geopolitical_risk"
  THEN [self EXCEPT !.geopolitical_risk_factors =
          DictOf(@ \o << <<"Sector Adjustment", Dec(11, 10)>> >>)]
  ELSE self

\* self after a method ran: no method assigns to an attribute of self or
\* writes into one of its tables
AfterCall(self, method) == self

\* self.method(...) is called
Invoke(r, method) ==
  /\ trace' = [trace EXCEPT ![r] = Append(@, method)]
  /\ analyzer' = AfterCall(analyzer, method)

\* analyzer.analyze_company(name) is called
Call(r, name) ==
  /\ pc[r] \in {"idle", "returned"}
  /\ company_name' = [company_name EXCEPT ![r] = name]
  /\ Fresh(r, "find_company_ticker")
  /\ UNCHANGED <<query, answer, analyzer>>

\* ticker = self.find_company_ticker(company_name); if not ticker: return ...
FindTicker(r) ==
  /\ pc[r] = "find_company_ticker"
  /\ \E search \in SearchFor(company_name[r]) :
       LET o == find_company_ticker(company_name[r], search)
       IN /\ Invoke(r, "find_company_ticker")
          /\ IF Raised(o)
             THEN Handle(r, o.exc) /\ UNCHANGED ticker
             ELSE /\ ticker' = [ticker EXCEPT ![r] = o.val]
                  /\ UNCHANGED fault
                  /\ IF Falsy(o.val)
                     THEN Return(r, [error |->
                            <<"Could not find ticker for company: ",
                              company_name[r]>>])
                     ELSE /\ pc' = [pc EXCEPT ![r] = "get_company_data"]
                          /\ UNCHANGED result
  /\ UNCHANGED <<company_name, company_data, sector, geopolitical_risk,
                 supply_chain_risk, capital_flow_risk, financial_metrics,
                 recommendation, provider, query, answer>>

\* Variant of GetData: the data another call fetched for the same ticker is
\* used again when there is some.
GetData_cached(r) ==
  /\ pc[r] = "get_company_data"
  /\ \E b \in ProviderBehaviours :
       LET cached == {q \in Requests \ {r} :
                        /\ ticker[q] = ticker[r]
                        /\ company_data[q][1] # NoData
                        /\ ~IsEmptyFrame(company_data[q][1])}
           o == IF cached # {}
                THEN Ret(company_data[CHOOSE q \in cached : TRUE])
                ELSE get_company_data(ticker[r], b)
       IN /\ Invoke(r, "get_company_data")
          /\ provider' = [provider EXCEPT ![r] = b]
          /\ IF Raised(o)
             THEN Handle(r, o.exc) /\ UNCHANGED company_data
             ELSE /\ company_data' = [company_data EXCEPT ![r] = o.val]
                  /\ UNCHANGED fault
                  /\ IF IsEmptyFrame(o.val[1])
                     THEN Return(r, [error |->
                            <<"Could not fetch data for ", ticker[r]>>])
                     ELSE /\ pc' = [pc EXCEPT ![r] = "determine_company_sector"]
                          /\ UNCHANGED result
  /\ UNCHANGED <<company_name, ticker, sector, geopolitical_risk,
                 supply_chain_risk, capital_flow_risk, financial_metrics,
                 recommendation, query, answer>>

\* company_data = self.get_company_data(ticker); data, info = company_data;
\* if data.empty: return ...
GetData(r) ==
  /\ pc[r] = "get_company_data"
  /\ \E b \in ProviderBehaviours :
       LET o == get_company_data(ticker[r], b)
       IN /\ Invoke(r, "get_company_data")
          /\ provider' = [provider EXCEPT ![r] = b]
          /\ IF Raised(o)
             THEN Handle(r, o.exc) /\ UNCHANGED company_data
             ELSE /\ company_data' = [company_data EXCEPT ![r] = o.val]
                  /\ UNCHANGED fault
                  /\ IF IsEmptyFrame(o.val[1])
                     THEN Return(r, [error |->
                            <<"Could not fetch data for ", ticker[r]>>])
                     ELSE /\ pc' = [pc EXCEPT ![r] = "determine_company_sector"]
                          /\ UNCHANGED result
  /\ UNCHANGED <<company_name, ticker, sector, geopolitical_risk,
                 supply_chain_risk, capital_flow_risk, financial_metrics,
                 recommendation, query, answer>>

\* perform_company_analysis: if data.empty: return ...;
\* sector = self.determine_company_sector(company_name, info)
DetermineSector(r) ==
  /\ pc[r] = "determine_company_sector"
  /\ IF IsEmptyFrame(company_data[r][1])
     THEN /\ Return(r, [error |-> <<"No data available for analysis", "">>])
          /\ UNCHANGED <<sector, trace, analyzer>>
     ELSE /\ Invoke(r, "determine_company_sector")
          /\ sector' = [sector EXCEPT ![r] =
               determine_company_sector(company_name[r], company_data[r][2])]
          /\ pc' = [pc EXCEPT ![r] = "calculate_company_geopolitical_risk"]
          /\ UNCHANGED result
  /\ UNCHANGED <<company_name, ticker, company_data, geopolitical_risk,
                 supply_chain_risk, capital_flow_risk, financial_metrics,
                 recommendation, provider, fault, query, answer>>

\* Variant of GeopoliticalRisk: the mapping is kept in one place that all
\* requests read and write.
GeopoliticalRisk_shared(r) ==
  /\ pc[r] = "calculate_company_geopolitical_risk"
  /\ Invoke(r, "calculate_company_geopolitical_risk")
  /\ geopolitical_risk' = [q \in Requests |->
       calculate_company_geopolitical_risk(sector[r], company_data[r][2])]
  /\ pc' = [pc EXCEPT ![r] = "calculate_company_supply_chain_risk"]
  /\ UNCHANGED <<company_name, ticker, company_data, sector,
                 supply_chain_risk, capital_flow_risk, financial_metrics,
                 recommendation, result, provider, fault, query, answer>>

\* geopolitical_risk = self.calculate_company_geopolitical_risk(sector, info)
GeopoliticalRisk(r) ==
  /\ pc[r] = "calculate_company_geopolitical_risk"
  /\ Invoke(r, "calculate_company_geopolitical_risk")
  /\ geopolitical_risk' = [geopolitical_risk EXCEPT ![r] =
       calculate_company_geopolitical_risk(sector[r], company_data[r][2])]
  /\ pc' = [pc EXCEPT ![r] = "calculate_company_supply_chain_risk"]
  /\ UNCHANGED <<company_name, ticker, company_data, sector,
                 supply_chain_risk, capital_flow_risk, financial_metrics,
                 recommendation, result, provider, fault, query, answer>>

\* supply_chain_risk = self.calculate_company_supply_chain_risk(sector, info)
SupplyChainRisk(r) ==
  /\ pc[r] = "calculate_company_supply_chain_risk"
  /\ Invoke(r, "calculate_company_supply_chain_risk")
  /\ supply_chain_risk' = [supply_chain_risk EXCEPT ![r] =
       calculate_company_supply_chain_risk(sector[r], company_data[r][2])]
  /\ pc' = [pc EXCEPT ![r] = "calculate_company_capital_flow_risk"]
  /\ UNCHANGED <<company_name, ticker, company_data, sector,
                 geopolitical_risk, capital_flow_risk, financial_metrics,
                 recommendation, result, provider, fault, query, answer>>

\* capital_flow_risk = self.calculate_company_capital_flow_risk(sector, info)
CapitalFlowRisk(r) ==
  /\ pc[r] = "calculate_company_capital_flow_risk"
  /\ Invoke(r, "calculate_company_capital_flow_risk")
  /\ capital_flow_risk' = [capital_flow_risk EXCEPT ![r] =
       calculate_company_capital_flow_risk(sector[r], company_data[r][2])]
  /\ pc' = [pc EXCEPT ![r] = "calculate_financial_metrics"]
  /\ UNCHANGED <<company_name, ticker, company_data, sector,
                 geopolitical_risk, supply_chain_risk, financial_metrics,
                 recommendation, result, provider, fault, query, answer>>

\* financial_metrics = self.calculate_financial_metrics(data, info)
FinancialMetrics(r) ==
  /\ pc[r] = "calculate_financial_metrics"
  /\ Invoke(r, "calculate_financial_metrics")
  /\ LET o == calculate_financial_metrics(company_data[r][1],
                                          company_data[r][2])
     IN IF Raised(o)
        THEN Handle(r, o.exc) /\ UNCHANGED financial_metrics
        ELSE /\ financial_metrics' = [financial_metrics EXCEPT ![r] = o.val]
             /\ pc' = [pc EXCEPT ![r] = "generate_company_recommendation"]
             /\ UNCHANGED <<result, fault>>
  /\ UNCHANGED <<company_name, ticker, company_data, sector,
                 geopolitical_risk, supply_chain_risk, capital_flow_risk,
                 recommendation, provider, query, answer>>

\* recommendation = self.generate_company_recommendation(...)
Recommend(r) ==
  /\ pc[r] = "generate_company_recommendation"
  /\ Invoke(r, "generate_company_recommendation")
  /\ recommendation' = [recommendation EXCEPT ![r] =
       generate_company_recommendation(geopolitical_risk[r],
         supply_chain_risk[r], capital_flow_risk[r], financial_metrics[r])]
  /\ pc' = [pc EXCEPT ![r] = "return_analysis"]
  /\ UNCHANGED <<company_name, ticker, company_data, sector,
                 geopolitical_risk, supply_chain_risk, capital_flow_risk,
                 financial_metrics, result, provider, fault, query, answer>>

\* return {...} of perform_company_analysis; analyze_company returns it
ReturnAnalysis(r) ==
  /\ pc[r] = "return_analysis"
  /\ Return(r, perform_company_analysis_result(
       [company_name |-> company_name[r], ticker |-> ticker[r],
        sector |-> sector[r], geopolitical_risk |-> geopolitical_risk[r],
        supply_chain_risk |-> supply_chain_risk[r],
        capital_flow_risk |-> capital_flow_risk[r],
        financial_metrics |-> financial_metrics[r],
        recommendation |-> recommendation[r], data |-> company_data[r][1]]))
  /\ UNCHANGED <<company_name, ticker, company_data, sector,
                 geopolitical_risk, supply_chain_risk, capital_flow_risk,
                 financial_metrics, recommendation, trace, provider, fault,
                 query, answer, analyzer>>

\* Names given to analyze_company: one or more per sector and per way the
\* resolution can end, the empty name, and None.
OrchNames ==
  {<<>>,
   <<" ">>,
   <<"H","S","B","C">>,
   <<" ","h","s","b","c"," ">>,
   <<"a","t","t">>,
   <<"n","o","r","t","o","n">>,
   <<"s","o","n","y">>,
   <<"t","o","t","a","l","l","y","-","u","n","k","n","o","w","n","-","x","y","z">>,
   <<"B","P">>,
   <<"r","o","l","l","s"," ","r","o","y","c","e">>,
   <<"t","e","s","c","o">>,
   <<"p","e","r","s","i","m","m","o","n">>,
   <<"u","n","i","l","e","v","e","r">>,
   <<"r","i","o"," ","t","i","n","t","o">>,
   <<"v","o","d","a","f","o","n","e">>,
   <<"e","a","s","y","j","e","t">>,
   <<"a","s","t","r","a","z","e","n","e","c","a">>,
   <<"s","a","g","e">>,
   <<"a","p","p","l","e">>,
   <<"A","c","m","e"," ","H","o","l","d","i","n","g","s">>,
   <<"r","e","t","a","i","l">>,
   <<"b","r","i","t","i","s","h"," ","a","i","r","w","a","y","s">>,
   <<"L","l","o","y","d","s"," ","B","a","n","k">>,
   NoneName}

\* Free-text names beyond the table's keys and the enumerated short ones.
SpecialNames ==
  {<<"t","o","t","a","l","l","y","-","u","n","k","n","o","w","n","-","x","y","z">>,
   <<"A","c","m","e"," ","H","o","l","d","i","n","g","s">>,
   <<"H","S","B","C"," ","H","o","l","d","i","n","g","s"," ","p","l","c">>,
   <<"L","l","o","y","d","s"," ","B","a","n","k">>,
   <<"R","i","o"," ","T","i","n","t","o">>,
   <<"B","r","i","t","i","s","h"," ","A","i","r","w","a","y","s">>,
   <<"S","a","i","n","s","b","u","r","y">>,
   <<"\t","b","t","\t">>}

(***************************************************************************)
(* The inputs of the direct calls.                                         *)
(***************************************************************************)
Alphabet == {"a", "i", "b", "t", "p", "A", " "}
ShortNames == SeqsUpTo(Alphabet, MaxNameLen)

Spaces(n) == [i \in 1..n |-> " "]
Padded(name) == {Spaces(a) \o name \o Spaces(b) : a, b \in 0..MaxPad}
Cased(name) == {name, Upper(name)}

KeyNames == {uk_companies_literal[i][1] : i \in 1..Len(uk_companies_literal)}
KeywordNames ==
  UNION {{sector_keywords[k][2][w] : w \in 1..Len(sector_keywords[k][2])} :
           k \in 1..Len(sector_keywords)}

\* names passed to find_company_ticker
TickerNames ==
  UNION {Padded(c) : c \in UNION {Cased(k) : k \in KeyNames}}
  \cup ShortNames \cup SpecialNames

\* names passed to determine_company_sector
SectorNames ==
  UNION {Padded(c) : c \in UNION {Cased(k) : k \in KeywordNames \cup KeyNames}}
  \cup ShortNames \cup SpecialNames

\* frames passed to the statistics
StatsFrames ==
  {Frame(c) : c \in SeqsUpTo(1..StatsMaxPrice, StatsMaxBars)}
  \cup {EmptyFrame, NoCloseFrame(1)}

\* the sector tags determine_company_sector returns
SectorTags ==
  {sector_keywords[k][1] : k \in 1..Len(sector_keywords)} \cup {"Other"}
\* sectors passed to the three calculate_company_*_risk methods: the tags, and
\* 'Services', which has a supply-chain table and is no tag
RiskSectors == SectorTags \cup {"Services"}
RiskOps ==
  {"calculate_company_geopolitical_risk",
   "calculate_company_supply_chain_risk",
   "calculate_company_capital_flow_risk"}

\* scores passed to generate_company_recommendation, and a mapping of them
ScoreLevels == {Dec(n, 10) : n \in {0, 2, 4, 6, 7, 8, 9, 10}}
MappingOf(scores) ==
  [i \in 1..Len(scores) |-> <<<<"factor", i>>, scores[i]>>]
MappingsOfLen(k) == {MappingOf(scores) : scores \in [1..k -> ScoreLevels]}

\* the financial metrics of a single bar, of a rising and of a falling price
RecMetrics ==
  {calculate_financial_metrics(Frame(c), EmptyInfo).val :
     c \in {<<1>>, <<1, 2>>, <<2, 1>>}}

\* the arguments of one call of generate_company_recommendation
Args(geo, supply, capital, metrics) ==
  [geopolitical_risk |-> geo, supply_chain_risk |-> supply,
   capital_flow_risk |-> capital, financial_metrics |-> metrics]
\* what perform_company_analysis passes for a sector
SectorArgs(sec, metrics) ==
  Args(calculate_company_geopolitical_risk(sec, EmptyInfo),
       calculate_company_supply_chain_risk(sec, EmptyInfo),
       calculate_company_capital_flow_risk(sec, EmptyInfo), metrics)
\* one mapping, of no factor up to MaxFactors factors, in all three categories
UniformArgs ==
  {Args(m, m, m, EmptyDict) :
     m \in UNION {MappingsOfLen(k) : k \in 0..MaxFactors}}
\* a mapping of no factor or of one, each category on its own
MixedMappings ==
  {EmptyDict}
  \cup {MappingOf(<<s>>) : s \in {Dec(2, 10), Dec(7, 10), Dec(9, 10)}}
MixedArgs ==
  {Args(g, s, c, EmptyDict) :
     g \in MixedMappings, s \in MixedMappings, c \in MixedMappings}
\* the calls made in pairs: a single factor in all three categories, at 0.2,
\* at each threshold of the labels and at 0.9, and what some sectors give
PairSectors ==
  {"Financial Services", "Technology", "Energy", "Real Estate", "Mining",
   "Telecommunications"}
PairArgs ==
  {Args(MappingOf(<<s>>), MappingOf(<<s>>), MappingOf(<<s>>), EmptyDict) :
     s \in {Dec(2, 10), Dec(4, 10), Dec(6, 10), Dec(8, 10), Dec(9, 10)}}
  \cup {SectorArgs(sec, EmptyDict) : sec \in PairSectors}
\* the same call with other financial metrics
WithMetrics(a, metrics) == [a EXCEPT !.financial_metrics = metrics]

\* What a caller who makes call after call on one analyzer asks for: a few
\* names, a few things the provider does, and one call of each other method.
CallerNames ==
  {<<"B","P">>, <<"t","e","s","c","o">>, <<"L","l","o","y","d","s"," ","B","a","n","k">>,
   <<"t","o","t","a","l","l","y","-","u","n","k","n","o","w","n","-","x","y","z">>}
CallerBehaviours ==
  {[historyRaises |-> TRUE, history |-> EmptyFrame,
    infoRaises |-> FALSE, info |-> EmptyInfo],
   [historyRaises |-> FALSE, history |-> Frame(<<1, 2>>),
    infoRaises |-> TRUE, info |-> EmptyInfo]}
  \cup {[historyRaises |-> FALSE, history |-> Frame(c),
         infoRaises |-> FALSE, info |-> EmptyInfo] :
           c \in {<<2>>, <<1, 2>>, <<2, 1>>}}
CallerQueries ==
  {[op |-> "find_company_ticker", applied |-> FALSE,
    company_name |-> <<"s","o","n","y">>, search |-> NotConsulted],
   [op |-> "determine_company_sector", applied |-> FALSE,
    company_name |-> <<"t","e","s","c","o">>, info |-> EmptyInfo],
   [op |-> "generate_company_recommendation", applied |-> FALSE,
    calls |-> <<SectorArgs("Energy", EmptyDict)>>]}
  \cup {[op |-> o, applied |-> FALSE, sector |-> "Energy", info |-> EmptyInfo] :
          o \in RiskOps}

\* what two concurrent requests ask for and get: an Energy and a Retail
\* company, a fetch that fails, a rising and a falling price
ConcurrentNames == {<<"B","P">>, <<"t","e","s","c","o">>}
ConcurrentBehaviours ==
  {[historyRaises |-> TRUE, history |-> EmptyFrame,
    infoRaises |-> FALSE, info |-> EmptyInfo]}
  \cup {[historyRaises |-> FALSE, history |-> Frame(c),
         infoRaises |-> FALSE, info |-> EmptyInfo] : c \in {<<1, 2>>, <<2, 1>>}}

NoQuery == [op |-> "none", applied |-> TRUE]
NoAnswer == Ret(None)

(***************************************************************************)
(* Direct calls of single methods: the query holds the arguments, and the  *)
(* call is applied once.                                                   *)
(***************************************************************************)
TickerQueries ==
  {[op |-> "find_company_ticker", applied |-> FALSE, company_name |-> n,
    search |-> NotConsulted] : n \in TickerNames}
SectorQueries ==
  {[op |-> "determine_company_sector", applied |-> FALSE, company_name |-> n,
    info |-> i] : n \in SectorNames, i \in Infos}
StatsQueries ==
  {[op |-> "calculate_financial_metrics", applied |-> FALSE, data |-> d] :
     d \in StatsFrames}
  \cup {[op |-> "calculate_statistics", applied |-> FALSE, data |-> d] :
          d \in StatsFrames \cup {NoData}}
  \cup {[op |-> "calculate_daily_returns", applied |-> FALSE, data |-> d] :
          d \in StatsFrames \cup {NoData}}

RiskQueries ==
  {[op |-> o, applied |-> FALSE, sector |-> s, info |-> i] :
     o \in RiskOps, s \in RiskSectors, i \in Infos}

RecommendQueries ==
  {[op |-> "generate_company_recommendation", applied |-> FALSE,
    calls |-> <<a>>] : a \in UniformArgs \cup MixedArgs}
  \cup {[op |-> "generate_company_recommendation", applied |-> FALSE,
         calls |-> <<a, b>>] : a \in PairArgs, b \in PairArgs}
  \cup {[op |-> "generate_company_recommendation", applied |-> FALSE,
         calls |-> <<WithMetrics(a, m1), WithMetrics(a, m2)>>] :
           a \in PairArgs, m1 \in RecMetrics, m2 \in RecMetrics}

Apply(op, value) ==
  /\ query.op = op
  /\ ~query.applied
  /\ query' = [query EXCEPT !.applied = TRUE]
  /\ answer' = value
  /\ analyzer' = AfterCall(analyzer, op)
  /\ UNCHANGED call_vars

\* analyzer.find_company_ticker(name), with what the search did if reached
CallFindTicker ==
  /\ query.op = "find_company_ticker"
  /\ ~query.applied
  /\ \E search \in SearchFor(query.company_name) :
       /\ query' = [query EXCEPT !.applied = TRUE, !.search = search]
       /\ answer' = find_company_ticker(query.company_name, search)
  /\ analyzer' = AfterCall(analyzer, "find_company_ticker")
  /\ UNCHANGED call_vars

\* analyzer.determine_company_sector(name, info)
CallDetermineSector ==
  Apply("determine_company_sector",
        Ret(determine_company_sector(query.company_name, query.info)))

\* analyzer.calculate_financial_metrics(data, {})
CallFinancialMetrics ==
  Apply("calculate_financial_metrics",
        calculate_financial_metrics(query.data, EmptyInfo))

\* app: returns = calculate_daily_returns(data)
CallDailyReturns ==
  Apply("calculate_daily_returns", calculate_daily_returns(query.data))

\* app: returns = calculate_daily_returns(data);
\*      stats = calculate_statistics(returns)
CallStatistics ==
  Apply("calculate_statistics",
        LET rs == calculate_daily_returns(query.data)
        IN IF Raised(rs) THEN rs ELSE calculate_statistics(rs.val))

\* analyzer.calculate_company_geopolitical_risk(sector, info)
CallGeopoliticalRisk ==
  Apply("calculate_company_geopolitical_risk",
        Ret(calculate_company_geopolitical_risk(query.sector, query.info)))

\* analyzer.calculate_company_supply_chain_risk(sector, info)
CallSupplyChainRisk ==
  Apply("calculate_company_supply_chain_risk",
        Ret(calculate_company_supply_chain_risk(query.sector, query.info)))

\* analyzer.calculate_company_capital_flow_risk(sector, info)
CallCapitalFlowRisk ==
  Apply("calculate_company_capital_flow_risk",
        Ret(calculate_company_capital_flow_risk(query.sector, query.info)))

\* analyzer.generate_company_recommendation(...), once per call of the query
CallRecommend ==
  Apply("generate_company_recommendation",
        Ret([i \in 1..Len(query.calls) |->
               generate_company_recommendation(
                 query.calls[i].geopolitical_risk,
                 query.calls[i].supply_chain_risk,
                 query.calls[i].capital_flow_risk,
                 query.calls[i].financial_metrics)]))

\* the caller turns to another direct call
Ask ==
  /\ query.applied
  /\ \E q \in CallerQueries : query' = q
  /\ answer' = NoAnswer
  /\ UNCHANGED call_vars
  /\ UNCHANGED analyzer

(***************************************************************************)
(* Specifications.                                                         *)
(***************************************************************************)
InitCalls(positions, q) ==
  /\ pc = positions
  /\ company_name = [r \in Requests |-> <<>>]
  /\ ticker = [r \in Requests |-> Unset]
  /\ company_data = [r \in Requests |-> <<NoData, EmptyInfo>>]
  /\ sector = [r \in Requests |-> Unset]
  /\ geopolitical_risk = [r \in Requests |-> EmptyDict]
  /\ supply_chain_risk = [r \in Requests |-> EmptyDict]
  /\ capital_flow_risk = [r \in Requests |-> EmptyDict]
  /\ financial_metrics = [r \in Requests |-> EmptyDict]
  /\ recommendation = [r \in Requests |-> NoResult]
  /\ result = [r \in Requests |-> NoResult]
  /\ trace = [r \in Requests |-> <<>>]
  /\ provider = [r \in Requests |-> NoBehaviour]
  /\ fault = [r \in Requests |-> ""]
  /\ query = q
  /\ answer = NoAnswer
  /\ analyzer = UKInvestmentStrategy

\* one caller of analyze_company, calling again after each return
Init ==
  InitCalls([r \in Requests |-> IF r = 1 THEN "idle" ELSE "off"], NoQuery)

Next ==
  \E r \in Requests :
    \/ \E name \in OrchNames : Call(r, name)
    \/ FindTicker(r)
    \/ GetData(r)
    \/ DetermineSector(r)
    \/ GeopoliticalRisk(r)
    \/ SupplyChainRisk(r)
    \/ CapitalFlowRisk(r)
    \/ FinancialMetrics(r)
    \/ Recommend(r)
    \/ ReturnAnalysis(r)

Spec == Init /\ [][Next]_vars

\* get_company_data of request r, the provider doing one of the things in
\* behaviours
Fetch(r, behaviours) == GetData(r) /\ provider'[r] \in behaviours

\* one caller on one analyzer: analyze_company again and again, and direct
\* calls of the other methods in between and during it
NextCaller ==
  \/ \E name \in CallerNames : Call(1, name)
  \/ FindTicker(1)
  \/ Fetch(1, CallerBehaviours)
  \/ DetermineSector(1)
  \/ GeopoliticalRisk(1)
  \/ SupplyChainRisk(1)
  \/ CapitalFlowRisk(1)
  \/ FinancialMetrics(1)
  \/ Recommend(1)
  \/ ReturnAnalysis(1)
  \/ Ask
  \/ CallFindTicker
  \/ CallDetermineSector
  \/ CallGeopoliticalRisk
  \/ CallSupplyChainRisk
  \/ CallCapitalFlowRisk
  \/ CallRecommend
SpecCaller == Init /\ [][NextCaller]_vars

\* two requests on one analyzer, each called once, their steps interleaved
InitConcurrent ==
  InitCalls([r \in Requests |-> "idle"], NoQuery)
NextConcurrent ==
  \E r \in Requests :
    \/ \E name \in ConcurrentNames : pc[r] = "idle" /\ Call(r, name)
    \/ FindTicker(r)
    \/ Fetch(r, ConcurrentBehaviours)
    \/ DetermineSector(r)
    \/ GeopoliticalRisk(r)
    \/ SupplyChainRisk(r)
    \/ CapitalFlowRisk(r)
    \/ FinancialMetrics(r)
    \/ Recommend(r)
    \/ ReturnAnalysis(r)
SpecConcurrent == InitConcurrent /\ [][NextConcurrent]_vars

\* no request runs; find_company_ticker is called on a drawn name
InitTicker ==
  \E q \in TickerQueries : InitCalls([r \in Requests |-> "off"], q)
SpecTicker == InitTicker /\ [][CallFindTicker]_vars

\* determine_company_sector is called on a drawn name
InitSector ==
  \E q \in SectorQueries : InitCalls([r \in Requests |-> "off"], q)
SpecSector == InitSector /\ [][CallDetermineSector]_vars

\* the statistics are computed for a drawn frame
InitStats ==
  \E q \in StatsQueries : InitCalls([r \in Requests |-> "off"], q)
NextStats == CallFinancialMetrics \/ CallDailyReturns \/ CallStatistics
SpecStats == InitStats /\ [][NextStats]_vars

\* one of the three risk mappings is computed for a drawn sector
InitRisk ==
  \E q \in RiskQueries : InitCalls([r \in Requests |-> "off"], q)
NextRisk == CallGeopoliticalRisk \/ CallSupplyChainRisk \/ CallCapitalFlowRisk
SpecRisk == InitRisk /\ [][NextRisk]_vars

\* generate_company_recommendation is called on drawn mappings
InitRecommend ==
  \E q \in RecommendQueries : InitCalls([r \in Requests |-> "off"], q)
SpecRecommend == InitRecommend /\ [][CallRecommend]_vars

(***************************************************************************)
(* Properties.                                                             *)
(***************************************************************************)
FailureReasons ==
  {"Could not find ticker for company: ", "Could not fetch data for ",
   "No data available for analysis", "Error analyzing company: "}

\* a failure record: the "error" key alone, holding one reason
IsFailure(res) ==
  /\ DOMAIN res = {"error"}
  /\ res.error[1] \in FailureReasons

\* a CompanyAnalysis with every field present
IsCompleteAnalysis(res) ==
  /\ DOMAIN res = AnalysisKeys
  /\ res.ticker \notin {None, Unset, ""}
  /\ res.sector # Unset
  /\ DOMAIN res.geopolitical_risk # {}
  /\ DOMAIN res.supply_chain_risk # {}
  /\ DOMAIN res.capital_flow_risk # {}
  /\ DOMAIN res.financial_metrics = MetricKeys
  /\ DOMAIN res.recommendation = RecommendationKeys

\* C1: whatever the name and whatever the collaborators do, analyze_company
\* returns either a failure record (the "error" key alone, with one reason)
\* or a complete CompanyAnalysis; never an error mixed with analysis fields,
\* never an analysis with a field missing.
C1_ResultShape ==
  \A r \in Requests :
    pc[r] = "returned" =>
      IsFailure(result[r]) \/ IsCompleteAnalysis(result[r])

\* A call returned a complete analysis of a series of a single bar.
C1_Witness ==
  \E r \in Requests :
    /\ pc[r] = "returned"
    /\ IsCompleteAnalysis(result[r])
    /\ result[r].price_data.rows = 1

\* C2: the ticker is resolved before the price history is fetched, and a
\* call whose ticker is unresolved returns the "ticker not found" failure
\* having invoked nothing but find_company_ticker.
C2_ResolveBeforeFetch ==
  \A r \in Requests :
    /\ \A i \in 1..Len(trace[r]) :
         trace[r][i] = "get_company_data" =>
           /\ \E j \in 1..(i - 1) : trace[r][j] = "find_company_ticker"
           /\ ticker[r] \notin {None, Unset}
    /\ (trace[r] # <<>> /\ ticker[r] = None) =>
         /\ pc[r] = "returned"
         /\ trace[r] = <<"find_company_ticker">>
         /\ DOMAIN result[r] = {"error"}
         /\ result[r].error =
              <<"Could not find ticker for company: ", company_name[r]>>

\* A call ended with the ticker unresolved after the search was consulted.
C2_Witness ==
  \E r \in Requests :
    /\ pc[r] = "returned"
    /\ ticker[r] = None
    /\ trace[r] = <<"find_company_ticker">>

\* the provider was asked and raised, or returned an empty series
FetchFailed(r) ==
  /\ Len(trace[r]) >= 2
  /\ trace[r][2] = "get_company_data"
  /\ \/ provider[r].historyRaises
     \/ provider[r].history.rows = 0

\* C3: when the market-data fetch raises or returns an empty series,
\* analyze_company returns the "no data" failure and runs none of the
\* later steps.
C3_NoDataStops ==
  \A r \in Requests :
    FetchFailed(r) =>
      /\ pc[r] = "returned"
      /\ trace[r] = <<"find_company_ticker", "get_company_data">>
      /\ DOMAIN result[r] = {"error"}
      /\ result[r].error = <<"Could not fetch data for ", ticker[r]>>

\* The provider raised while the history was fetched, and the call is over.
C3_Witness ==
  \E r \in Requests :
    /\ pc[r] = "returned"
    /\ FetchFailed(r)
    /\ provider[r].historyRaises

\* C4: no fault of any stage reaches the caller of analyze_company: a fault
\* raised inside it, and a fault of the provider, end the call with a
\* failure record that carries a reason.
C4_NoFaultPropagates ==
  \A r \in Requests :
    /\ pc[r] # "raised"
    /\ (fault[r] # "" \/ provider[r].historyRaises \/ provider[r].infoRaises)
         => pc[r] = "returned" /\ IsFailure(result[r])

\* The statistics step raised (no Close column) and the call returned.
C4_Witness ==
  \E r \in Requests :
    /\ pc[r] = "returned"
    /\ fault[r] = "KeyError"
    /\ trace[r][Len(trace[r])] = "calculate_financial_metrics"

\* C5: analyze_company called with the empty name resolves no ticker,
\* fetches no data and returns a failure record.
C5_EmptyNameRejected ==
  \A r \in Requests :
    (pc[r] \notin {"off", "idle"} /\ company_name[r] = <<>>) =>
      /\ ticker[r] \in {None, Unset}
      /\ \A i \in 1..Len(trace[r]) : trace[r][i] # "get_company_data"
      /\ pc[r] = "returned" => IsFailure(result[r])

\* a price series of fewer than 2 bars
ShortSeries(data) == data.rows = 0 \/ (data.rows = 1 /\ data.hasClose)

AliasHits(name) ==
  LET q == Strip(Lower(name))
  IN {i \in 1..Len(uk_companies) :
        \/ Contains(q, uk_companies[i][1])
        \/ Contains(uk_companies[i][1], q)}

\* C7: find_company_ticker lowercases and trims the name and returns the
\* ticker of the first entry of the table, in iteration order, whose key
\* contains the normalized name or is contained in it: no later entry wins
\* over an earlier one that matches.
C7_FirstMatchWins ==
  (query.op = "find_company_ticker" /\ query.applied) =>
    LET hits == AliasHits(query.company_name)
    IN \A i \in hits :
         (\A j \in hits : i <= j) => answer = Ret(uk_companies[i][2])

\* A name in upper case with whitespace around it matched several entries.
C7_Witness ==
  /\ query.op = "find_company_ticker"
  /\ query.applied
  /\ query.company_name # Strip(Lower(query.company_name))
  /\ Cardinality(AliasHits(query.company_name)) > 1

\* C8: a name equal to a key of the table, in any case and with any
\* whitespace around it, resolves to the ticker the table maps the key to.
C8_KeyResolvesToItsTicker ==
  (query.op = "find_company_ticker" /\ query.applied) =>
    LET q == Strip(Lower(query.company_name))
    IN \A i \in 1..Len(uk_companies) :
         q = uk_companies[i][1] => answer = Ret(uk_companies[i][2])

\* C9: when no entry of the table matches, find_company_ticker returns the
\* first candidate of the external search if there is one, and None if the
\* search returns nothing or fails; it does not raise.
C9_FallbackSearch ==
  (query.op = "find_company_ticker" /\ query.applied
   /\ AliasHits(query.company_name) = {}) =>
    /\ query.search.consulted
    /\ ~Raised(answer)
    /\ answer.val = IF ~query.search.raises /\ Len(query.search.results) >= 1
                    THEN query.search.results[1]
                    ELSE None

\* No entry matched and the search returned two candidates.
C9_Witness ==
  /\ query.op = "find_company_ticker"
  /\ query.applied
  /\ AliasHits(query.company_name) = {}
  /\ Len(query.search.results) = 2
  /\ query.search.results[1] # query.search.results[2]

\* The closed set of sector tags, in the order of the claim.
C10_Order ==
  <<"Financial Services", "Technology", "Healthcare", "Energy",
    "Manufacturing", "Retail", "Real Estate", "Consumer Goods", "Mining",
    "Telecommunications", "Transportation">>

\* the positions in C10_Order whose sector has a keyword in the lowercased name
SectorHits(name) ==
  {k \in 1..Len(C10_Order) :
     \E j \in 1..Len(sector_keywords) :
       /\ sector_keywords[j][1] = C10_Order[k]
       /\ \E w \in 1..Len(sector_keywords[j][2]) :
            Contains(sector_keywords[j][2][w], Lower(name))}

RiskApplied(op) == query.op = op /\ query.applied

\* the table the claim takes as the fixed base table of a category (for the
\* supply chain: the one table that does not depend on the sector) and the
\* multiplier it takes for a sector: the entry of the category's adjustment
\* table, 1.0 when there is no entry
C11_Base(op) ==
  CASE op = "calculate_company_geopolitical_risk" ->
         calculate_geopolitical_risk_score
    [] op = "calculate_company_capital_flow_risk" -> evaluate_capital_flows
    [] op = "calculate_company_supply_chain_risk" -> company_factors
C11_Multiplier(op, sec) ==
  CASE op = "calculate_company_geopolitical_risk" ->
         Get(geopolitical_sector_adjustments, sec, One)
    [] op = "calculate_company_capital_flow_risk" ->
         Get(capital_flow_sector_adjustments, sec, One)
    [] op = "calculate_company_supply_chain_risk" -> One

\* every score of mapping m is min(1.0, base * multiplier) of its factor
C11_Scaled(m, base, multiplier) ==
  \A i \in 1..Len(m) :
    /\ m[i][1] \in Keys(base)
    /\ m[i][2] = Min2(One, FMul(Get(base, m[i][1], FloatNaN), multiplier))

\* C11 as stated: in each of the three categories and for every sector tag,
\* each score of the sector-adjusted mapping is min(1.0, base * multiplier),
\* base being the factor's value in the category's fixed base table and
\* multiplier the sector's entry in the category's adjustment table, 1.0 when
\* the sector has none.
C11_AdjustedScores ==
  (query.op \in RiskOps /\ query.applied /\ query.sector \in SectorTags) =>
    C11_Scaled(answer.val, C11_Base(query.op),
               C11_Multiplier(query.op, query.sector))

\* C11 as the code has it: the geopolitical and the capital-flow mapping hold,
\* for each factor of the category's base table and no other, the score
\* min(1.0, base * multiplier); the supply-chain mapping is not multiplied: it
\* holds the four company factors with their fixed values and, before them,
\* the factors of the sector's own table of analyze_supply_chain_dynamics
\* (Manufacturing and Energy among the tags, and 'Services') unchanged.
C11_AdjustedScoresByCategory ==
  /\ \A op \in RiskOps \ {"calculate_company_supply_chain_risk"} :
       RiskApplied(op) =>
         /\ Keys(answer.val) = Keys(C11_Base(op))
         /\ C11_Scaled(answer.val, C11_Base(op),
                       C11_Multiplier(op, query.sector))
  /\ RiskApplied("calculate_company_supply_chain_risk") =>
       LET own == Get(analyze_supply_chain_dynamics, query.sector, <<>>)
       IN /\ Keys(answer.val) = Keys(own) \cup Keys(company_factors)
          /\ Keys(own) # {} <=>
               query.sector \in {"Manufacturing", "Energy", "Services"}
          /\ \A i \in 1..Len(answer.val) :
               /\ answer.val[i][2] =
                    Get(company_factors, answer.val[i][1],
                        Get(own, answer.val[i][1], FloatNaN))
               /\ i <= Len(own) <=> answer.val[i][1] \in Keys(own)

\* The capital-flow mapping was computed for Real Estate, whose multiplier
\* differs between the categories.
C11_Witness ==
  /\ RiskApplied("calculate_company_capital_flow_risk")
  /\ query.sector = "Real Estate"
  /\ Get(answer.val, "FDI Attractiveness", FloatNaN) = Dec(84, 100)

\* 0 <= x <= 1
InUnitInterval(x) == FLessEq(FloatZero, x) /\ FLessEq(x, One)

\* C12: every value of every sector-adjusted score mapping lies in [0,1],
\* for each of the 12 sector tags and each of the three categories.
C12_ScoresInUnitInterval ==
  (query.op \in RiskOps /\ query.applied) =>
    /\ ~Raised(answer)
    /\ \A i \in 1..Len(answer.val) : InUnitInterval(answer.val[i][2])

\* The geopolitical mapping was computed for the sector with the largest
\* multiplier, and holds the largest score of all.
C12_Witness ==
  /\ RiskApplied("calculate_company_geopolitical_risk")
  /\ query.sector = "Financial Services"
  /\ \E i \in 1..Len(answer.val) : FLess(Dec(9, 10), answer.val[i][2])


(***************************************************************************)
(* Claims about generate_company_recommendation, under SpecRecommend.      *)
(***************************************************************************)
RecommendApplied == RiskApplied("generate_company_recommendation")
\* the i-th call of the query and what it returned
CallOf(i) == query.calls[i]
ResultOf(i) == answer.val[i]
CallsMade == 1..Len(query.calls)
MappingsOf(i) ==
  <<CallOf(i).geopolitical_risk, CallOf(i).supply_chain_risk,
    CallOf(i).capital_flow_risk>>
NonEmptyMappings(i) == \A k \in 1..3 : MappingsOf(i)[k] # EmptyDict
ScoresInUnitInterval(i) ==
  \A k \in 1..3 : \A j \in 1..Len(MappingsOf(i)[k]) :
    InUnitInterval(MappingsOf(i)[k][j][2])

\* 0.4*avg(geopolitical) + 0.3*avg(supply_chain) + 0.3*avg(capital_flow)
C13_Weighted(i) ==
  FAdd(FAdd(FMul(Dec(4, 10), MeanOf(CallOf(i).geopolitical_risk)),
            FMul(Dec(3, 10), MeanOf(CallOf(i).supply_chain_risk))),
       FMul(Dec(3, 10), MeanOf(CallOf(i).capital_flow_risk)))

LabelOf(i) == <<ResultOf(i).recommendation, ResultOf(i).confidence>>

\* C14: every call returns one label and one confidence: Strong Buy / High
\* for a score below 0.4, Buy / Medium from 0.4 and below 0.6, Hold / Medium
\* from 0.6 and below 0.8, Sell / High from 0.8; the confidence is High exactly
\* for Strong Buy and Sell.
C14_LabelBands ==
  RecommendApplied =>
    \A i \in CallsMade :
      LET score == ResultOf(i).overall_risk_score
      IN /\ LabelOf(i) \in {<<"Strong Buy", "High">>, <<"Buy", "Medium">>,
                            <<"Hold", "Medium">>, <<"Sell", "High">>}
         /\ FLess(score, Dec(4, 10)) => LabelOf(i) = <<"Strong Buy", "High">>
         /\ (FLessEq(Dec(4, 10), score) /\ FLess(score, Dec(6, 10)))
              => LabelOf(i) = <<"Buy", "Medium">>
         /\ (FLessEq(Dec(6, 10), score) /\ FLess(score, Dec(8, 10)))
              => LabelOf(i) = <<"Hold", "Medium">>
         /\ FLessEq(Dec(8, 10), score) => LabelOf(i) = <<"Sell", "High">>
         /\ ResultOf(i).confidence = "High"
              <=> ResultOf(i).recommendation \in {"Strong Buy", "Sell"}

\* calls whose scores are exactly 0.4, 0.6 and 0.8 got Buy, Hold and Sell
C14_AtThreshold(i, threshold, label) ==
  /\ ResultOf(i).overall_risk_score = threshold
  /\ ResultOf(i).recommendation = label
C14_Witness ==
  /\ RecommendApplied
  /\ Len(query.calls) = 2
  /\ \/ C14_AtThreshold(1, Dec(4, 10), "Buy")
          /\ C14_AtThreshold(2, Dec(6, 10), "Hold")
     \/ C14_AtThreshold(1, Dec(6, 10), "Hold")
          /\ C14_AtThreshold(2, Dec(8, 10), "Sell")


\* the place of a label in the order Strong Buy, Buy, Hold, Sell
LabelOrder == <<"Strong Buy", "Buy", "Hold", "Sell">>
Rank(label) == CHOOSE k \in 1..Len(LabelOrder) : LabelOrder[k] = label

\* C15: of two calls, the one with the lower or equal overall score never has
\* the later label.
C15_LabelMonotonic ==
  RecommendApplied =>
    \A i \in CallsMade, j \in CallsMade :
      FLessEq(ResultOf(i).overall_risk_score, ResultOf(j).overall_risk_score)
        => Rank(ResultOf(i).recommendation) <= Rank(ResultOf(j).recommendation)

\* two calls for sectors: the lower score got Buy, the higher one Hold
C15_Witness ==
  /\ RecommendApplied
  /\ Len(query.calls) = 2
  /\ CallOf(1) = SectorArgs("Technology", EmptyDict)
  /\ CallOf(2) = SectorArgs("Energy", EmptyDict)
  /\ FLess(ResultOf(1).overall_risk_score, ResultOf(2).overall_risk_score)
  /\ ResultOf(1).recommendation = "Buy"
  /\ ResultOf(2).recommendation = "Hold"


\* the three flags in their order, each with the average it depends on
FlagsOf(i) ==
  << <<"High geopolitical risk exposure", MeanOf(CallOf(i).geopolitical_risk)>>,
     <<"Supply chain vulnerabilities identified",
       MeanOf(CallOf(i).supply_chain_risk)>>,
     <<"Sensitive to capital flow changes",
       MeanOf(CallOf(i).capital_flow_risk)>> >>
FlagRaised(flag) == FGreater(flag[2], Dec(7, 10))
FlagNames(flags) == [k \in 1..Len(flags) |-> flags[k][1]]

\* C16: the insights of a call are the flags whose average is above 0.7, in
\* the order geopolitical, supply chain, capital flow, each once; an average
\* of exactly 0.7 raises no flag and the list is empty when none is above.
C16_InsightFlags ==
  RecommendApplied =>
    \A i \in CallsMade :
      ResultOf(i).key_insights = FlagNames(SelectSeq(FlagsOf(i), FlagRaised))

\* a geopolitical average of exactly 0.7 with the other two at 0.9: the two
\* other flags only
C16_Witness ==
  /\ RecommendApplied
  /\ \E i \in CallsMade :
       /\ MeanOf(CallOf(i).geopolitical_risk) = Dec(7, 10)
       /\ MeanOf(CallOf(i).supply_chain_risk) = Dec(9, 10)
       /\ MeanOf(CallOf(i).capital_flow_risk) = Dec(9, 10)
       /\ ResultOf(i).key_insights =
            <<"Supply chain vulnerabilities identified",
              "Sensitive to capital flow changes">>


\* the three averages of the i-th call are all x
AveragesAll(i, x) ==
  /\ MeanOf(CallOf(i).geopolitical_risk) = x
  /\ MeanOf(CallOf(i).supply_chain_risk) = x
  /\ MeanOf(CallOf(i).capital_flow_risk) = x

\* C17: three averages of 0.9 give Sell, High and the three flags; three
\* averages of 0.2 give the score 0.2, Strong Buy, High and no insight.
C17_RoundTrips ==
  RecommendApplied =>
    \A i \in CallsMade :
      /\ AveragesAll(i, Dec(9, 10)) =>
           /\ LabelOf(i) = <<"Sell", "High">>
           /\ ResultOf(i).key_insights =
                <<"High geopolitical risk exposure",
                  "Supply chain vulnerabilities identified",
                  "Sensitive to capital flow changes">>
      /\ AveragesAll(i, Dec(2, 10)) =>
           /\ ResultOf(i).overall_risk_score = Dec(2, 10)
           /\ LabelOf(i) = <<"Strong Buy", "High">>
           /\ ResultOf(i).key_insights = <<>>

\* both cases in one pair of calls
C17_Witness ==
  /\ RecommendApplied
  /\ Len(query.calls) = 2
  /\ AveragesAll(1, Dec(9, 10))
  /\ ResultOf(1).recommendation = "Sell"
  /\ AveragesAll(2, Dec(2, 10))
  /\ ResultOf(2).recommendation = "Strong Buy"


\* what a recommendation says: score, label, confidence and insights
Advice(rec) ==
  <<rec.overall_risk_score, rec.recommendation, rec.confidence,
    rec.key_insights>>

\* C18: two calls with the same three mappings return the same score, label,
\* confidence and insights, whatever financial_metrics each was given; so it
\* is for the mappings of a sector with the metrics of any fetched series.
C18_MetricsIgnored ==
  RecommendApplied =>
    \A i \in CallsMade, j \in CallsMade :
      MappingsOf(i) = MappingsOf(j) => Advice(ResultOf(i)) = Advice(ResultOf(j))

\* the mappings of Financial Services with the metrics of a rising and of a
\* falling price
C18_Witness ==
  /\ RecommendApplied
  /\ Len(query.calls) = 2
  /\ MappingsOf(1) = MappingsOf(2)
  /\ CallOf(1) = SectorArgs("Financial Services", CallOf(1).financial_metrics)
  /\ CallOf(1).financial_metrics # EmptyDict
  /\ CallOf(2).financial_metrics # EmptyDict
  /\ CallOf(1).financial_metrics["Price Change (%)"].n > 0
  /\ CallOf(2).financial_metrics["Price Change (%)"].n < 0
  /\ Advice(ResultOf(1)) = Advice(ResultOf(2))


(***************************************************************************)
(* Claims about the statistics, under SpecStats.                           *)
(***************************************************************************)
\* a series of at least 2 bars, all of the same price
ConstantSeries(data) ==
  /\ data.hasClose
  /\ Len(data.Close) >= 2
  /\ \A t \in 1..Len(data.Close) : data.Close[t] = data.Close[1]

\* C19: for a constant series of at least 2 bars neither computation raises,
\* every return is 0, and the standard deviation, the total return, the max
\* drawdown and the Sharpe ratio are the number 0.  The code does not do
\* this: the standard deviation of a single return is NaN in both, and
\* calculate_statistics divides the mean by the standard deviation unguarded,
\* so its Sharpe ratio is NaN.
C19_ConstantSeries ==
  (query.op \in {"calculate_financial_metrics", "calculate_statistics"}
   /\ query.applied /\ ConstantSeries(query.data)) =>
    /\ ~Raised(answer)
    /\ \A t \in 1..(Len(query.data.Close) - 1) :
         PctChange(query.data.Close)[t] = Zero
    /\ query.op = "calculate_statistics" =>
         /\ answer.val["Standard Deviation (%)"] = Zero
         /\ answer.val["Total Return (%)"] = Zero
         /\ answer.val["Sharpe Ratio"] = Zero
    /\ query.op = "calculate_financial_metrics" =>
         /\ answer.val["Volatility (%)"] = Zero
         /\ answer.val["Max Drawdown (%)"] = Zero
         /\ answer.val["Sharpe Ratio"] = Zero


\* no price is below the one before it
NonDecreasing(closes) ==
  \A t \in 1..(Len(closes) - 1) : closes[t] <= closes[t + 1]

\* C20: for a non-empty series of positive closes the max drawdown returned by
\* calculate_financial_metrics is a number, is at most 0, and is 0 exactly
\* when the prices never fall.
C20_MaxDrawdown ==
  (query.op = "calculate_financial_metrics" /\ query.applied
   /\ query.data.hasClose /\ Len(query.data.Close) >= 1) =>
    /\ ~Raised(answer)
    /\ answer.val["Max Drawdown (%)"].kind = "rat"
    /\ answer.val["Max Drawdown (%)"].n <= 0
    /\ answer.val["Max Drawdown (%)"].n = 0 <=> NonDecreasing(query.data.Close)

\* a series that rises after having fallen by a half
C20_Witness ==
  /\ query.op = "calculate_financial_metrics"
  /\ query.applied
  /\ query.data = Frame(<<2, 1, 3>>)
  /\ answer.val["Max Drawdown (%)"] = Rat(-50, 1)


(***************************************************************************)
(* Claims about the analyzer's state, under SpecCaller and SpecConcurrent.  *)
(***************************************************************************)
\* C21: after any sequence of calls the tables of the analyzer have the
\* contents __init__ gave them.  (The base tables, the adjustment tables and
\* the alias table are literals each method builds anew at every call, so
\* they are the same at every call.)
C21_TablesUnchanged == analyzer = UKInvestmentStrategy

\* an analysis has returned and the direct call of
\* calculate_company_geopolitical_risk was applied after other calls
C21_Witness ==
  /\ pc[1] = "returned"
  /\ IsCompleteAnalysis(result[1])
  /\ RiskApplied("calculate_company_geopolitical_risk")
  /\ analyzer = UKInvestmentStrategy


\* What perform_company_analysis returns when it runs with nothing else
\* going on, from the sector on.
AloneAnalysis(name, tick, data, info, sec, metrics) ==
  IF Raised(metrics) THEN analyze_company_except(metrics.exc).result
  ELSE perform_company_analysis_result(
         [company_name |-> name, ticker |-> tick, sector |-> sec,
          geopolitical_risk |-> calculate_company_geopolitical_risk(sec, info),
          supply_chain_risk |-> calculate_company_supply_chain_risk(sec, info),
          capital_flow_risk |-> calculate_company_capital_flow_risk(sec, info),
          financial_metrics |-> metrics.val,
          recommendation |->
            generate_company_recommendation(
              calculate_company_geopolitical_risk(sec, info),
              calculate_company_supply_chain_risk(sec, info),
              calculate_company_capital_flow_risk(sec, info), metrics.val),
          data |-> data])

\* ... from the fetched data on
AloneFetched(name, tick, fetched) ==
  IF IsEmptyFrame(fetched[1])
  THEN [error |-> <<"Could not fetch data for ", tick>>]
  ELSE AloneAnalysis(name, tick, fetched[1], fetched[2],
                     determine_company_sector(name, fetched[2]),
                     calculate_financial_metrics(fetched[1], fetched[2]))

\* ... from the resolved ticker on
AloneResolved(name, resolved, b) ==
  IF Raised(resolved) THEN analyze_company_except(resolved.exc).result
  ELSE IF Falsy(resolved.val)
  THEN [error |-> <<"Could not find ticker for company: ", name>>]
  ELSE AloneFetched(name, resolved.val, get_company_data(resolved.val, b).val)

\* what analyze_company(name) returns when it runs alone, the search doing
\* one of the things it can do and the provider doing b
AloneResults(name, b) ==
  {AloneResolved(name, find_company_ticker(name, search), b) :
     search \in SearchFor(name)}

\* C22: however the steps of the two requests interleave, each returns what
\* it returns when run alone on the same name with the same fetched data.
C22_AsIfAlone ==
  \A r \in Requests :
    pc[r] = "returned" =>
      result[r] \in AloneResults(company_name[r], provider[r])

\* both requests have returned an analysis, of different sectors and of
\* different price series
C22_Witness ==
  /\ \A r \in Requests : pc[r] = "returned" /\ IsCompleteAnalysis(result[r])
  /\ result[1].sector = "Energy"
  /\ result[2].sector = "Retail"
  /\ result[1].price_data # result[2].price_data


(***************************************************************************)
(* Claims about the return series, under SpecStats                         *)
(***************************************************************************)
\* calculate_daily_returns was applied to a frame of n rows with a Close
\* column
ReturnsOf(n) ==
  /\ query.op = "calculate_daily_returns"
  /\ query.applied
  /\ query.data # NoData
  /\ query.data.hasClose
  /\ query.data.rows = n

\* C23: for a frame of n >= 1 bars the return series has n - 1 entries (none
\* for 1 bar) and its t-th entry r satisfies r * close_t = close_(t+1) -
\* close_t, that is r = close_(t+1) / close_t - 1.  For a frame of no bars no
\* series is built: the answer is None, which has no entry either.
C23_ReturnSeries ==
  \A n \in 0..(StatsMaxBars + 1) :
    ReturnsOf(n) =>
      /\ ~Raised(answer)
      /\ n = 0 => answer.val = NoSeries
      /\ n >= 1 =>
           /\ ~answer.val.none
           /\ Len(answer.val.values) = n - 1
           /\ \A t \in 1..(n - 1) :
                /\ answer.val.values[t].kind = "rat"
                /\ RMul(answer.val.values[t], Rat(query.data.Close[t], 1))
                     = Rat(query.data.Close[t + 1] - query.data.Close[t], 1)

\* the returns of three bars with a fall and then a rise
C23_Witness ==
  /\ ReturnsOf(3)
  /\ query.data.Close = <<2, 1, 3>>
  /\ answer.val.values = <<Rat(-1, 2), Rat(2, 1)>>


(***************************************************************************)
(* Claims about what a request keeps from another, under SpecConcurrent    *)
(***************************************************************************)
\* the calls request r has made so far begin with these
Began(r, methods) ==
  /\ Len(trace[r]) >= Len(methods)
  /\ SubSeq(trace[r], 1, Len(methods)) = methods

\* C24: every call that has returned resolved the ticker itself, fetched the
\* history itself when it had a ticker, and the price data and the statistics
\* of its analysis are those of the series the provider gave to this call.
C24_NothingCached ==
  \A r \in Requests :
    pc[r] = "returned" =>
      /\ Began(r, <<"find_company_ticker">>)
      /\ ~Falsy(ticker[r]) /\ ticker[r] # Unset =>
           Began(r, <<"find_company_ticker", "get_company_data">>)
      /\ IsCompleteAnalysis(result[r]) =>
           /\ result[r].price_data = provider[r].history
           /\ result[r].financial_metrics =
                calculate_financial_metrics(provider[r].history,
                                            provider[r].info).val

\* two calls for the same company were given different series, and each
\* returned the statistics of its own
C24_Witness ==
  /\ \A r \in Requests : pc[r] = "returned" /\ IsCompleteAnalysis(result[r])
  /\ result[1].ticker = result[2].ticker
  /\ provider[1].history # provider[2].history
  /\ result[1].price_data = provider[1].history
  /\ result[2].price_data = provider[2].history
  /\ result[1].financial_metrics # result[2].financial_metrics


(***************************************************************************)
(* Claims about what analyze_company computes for a sector, under Spec     *)
(***************************************************************************)
\* request r is about to call generate_company_recommendation
AtRecommend(r) == pc[r] = "generate_company_recommendation"
\* request r has called it and holds its result
Recommended(r) ==
  \/ pc[r] = "return_analysis"
  \/ pc[r] = "returned" /\ IsCompleteAnalysis(result[r])
\* the three mappings request r holds
ScoreMappings(r) ==
  <<geopolitical_risk[r], supply_chain_risk[r], capital_flow_risk[r]>>

\* C25: when perform_company_analysis calls generate_company_recommendation
\* the sector is one of the tags and each of the three mappings has at least
\* one entry; the three averages of the recommendation it gets are numbers.
C25_NoEmptyMapping ==
  \A r \in Requests :
    /\ AtRecommend(r) =>
         /\ sector[r] \in SectorTags
         /\ \A k \in 1..3 : Len(ScoreMappings(r)[k]) >= 1
    /\ Recommended(r) =>
         /\ ~IsNaN(recommendation[r].risk_breakdown.geopolitical)
         /\ ~IsNaN(recommendation[r].risk_breakdown.supply_chain)
         /\ ~IsNaN(recommendation[r].risk_breakdown.capital_flow)

\* a company of no known sector, which has no supply-chain table of its own,
\* reaches the call with the four company factors
C25_Witness ==
  /\ AtRecommend(1)
  /\ sector[1] = "Other"
  /\ Len(supply_chain_risk[1]) = 4
  /\ Len(geopolitical_risk[1]) >= 1
  /\ Len(capital_flow_risk[1]) >= 1


\* C26: whatever company analyze_company analyses, the overall score of its
\* recommendation is at least 0.4 and below 0.8, the label is Buy or Hold and
\* the confidence is Medium, and this is the recommendation it returns.
C26_BuyOrHold ==
  \A r \in Requests :
    Recommended(r) =>
      /\ sector[r] \in SectorTags
      /\ FLessEq(Dec(4, 10), recommendation[r].overall_risk_score)
      /\ FLess(recommendation[r].overall_risk_score, Dec(8, 10))
      /\ recommendation[r].recommendation \in {"Buy", "Hold"}
      /\ recommendation[r].confidence = "Medium"
      /\ pc[r] = "returned" => result[r].recommendation = recommendation[r]

\* a bank, the sector of the highest score, is returned as a Hold
C26_Witness ==
  /\ pc[1] = "returned"
  /\ IsCompleteAnalysis(result[1])
  /\ result[1].sector = "Financial Services"
  /\ result[1].recommendation.recommendation = "Hold"
  /\ result[1].recommendation.confidence = "Medium"
  /\ FLess(Dec(72, 100), result[1].recommendation.overall_risk_score)


\* the entries of mapping m
Entries(m) == {m[i] : i \in 1..Len(m)}
\* the texts of the insights of a recommendation
InsightsOf(rec) == {rec.key_insights[i] : i \in 1..Len(rec.key_insights)}

\* C27: in every analysis the supply-chain mapping holds the four company
\* factors with their values 0.7, 0.6, 0.5 and 0.4; it holds nothing else
\* unless the sector is Manufacturing or Energy, and then four more entries,
\* each an entry of that sector's table as it stands there.  Its average is
\* at most 0.7 and the recommendation does not carry the supply-chain
\* insight.
C27_NoSupplyChainInsight ==
  \A r \in Requests :
    Recommended(r) =>
      /\ {<<"International Exposure", Dec(7, 10)>>,
          <<"Supply Chain Complexity", Dec(6, 10)>>,
          <<"Digital Transformation", Dec(5, 10)>>,
          <<"Domestic Sourcing", Dec(4, 10)>>}
           \subseteq Entries(supply_chain_risk[r])
      /\ Len(supply_chain_risk[r]) =
           IF sector[r] \in {"Manufacturing", "Energy"} THEN 8 ELSE 4
      /\ sector[r] \in {"Manufacturing", "Energy"} =>
           Entries(Get(analyze_supply_chain_dynamics, sector[r], EmptyDict))
             \subseteq Entries(supply_chain_risk[r])
      /\ FLessEq(recommendation[r].risk_breakdown.supply_chain, Dec(7, 10))
      /\ "Supply chain vulnerabilities identified"
           \notin InsightsOf(recommendation[r])

\* an energy company, whose mapping has the highest average, is returned
\* without the insight
C27_Witness ==
  /\ pc[1] = "returned"
  /\ IsCompleteAnalysis(result[1])
  /\ result[1].sector = "Energy"
  /\ Len(result[1].supply_chain_risk) = 8
  /\ FLess(Dec(64, 100), result[1].recommendation.risk_breakdown.supply_chain)
  /\ "Supply chain vulnerabilities identified"
       \notin InsightsOf(result[1].recommendation)


\* request r has fetched: the history came and has bars, company.info raised
InfoFailed(r) ==
  /\ Began(r, <<"find_company_ticker", "get_company_data">>)
  /\ ~provider[r].historyRaises
  /\ provider[r].history # NoData
  /\ ~IsEmptyFrame(provider[r].history)
  /\ provider[r].infoRaises

\* C28: when the history of the resolved ticker is fetched with bars in it and
\* company.info raises, get_company_data returns an empty frame with empty
\* metadata, and analyze_company returns the failure "Could not fetch data
\* for <ticker>" without calling anything else.
C28_InfoFailure ==
  \A r \in Requests :
    InfoFailed(r) =>
      /\ company_data[r] = <<EmptyFrame, EmptyInfo>>
      /\ pc[r] = "returned"
      /\ result[r] = [error |-> <<"Could not fetch data for ", ticker[r]>>]
      /\ trace[r] = <<"find_company_ticker", "get_company_data">>
      /\ fault[r] = ""

\* BP's history of two bars came, its info raised, and the request failed
C28_Witness ==
  /\ InfoFailed(1)
  /\ ticker[1] = "BP.L"
  /\ provider[1].history.rows = 2
  /\ IsFailure(result[1])


(***************************************************************************)
(* Claims about the substring 'ai', under SpecSector                       *)
(***************************************************************************)
\* determine_company_sector was applied to a name that, lowercased, contains
\* 'ai' and none of the eight Financial Services keywords
NameWithAi ==
  /\ query.op = "determine_company_sector"
  /\ query.applied
  /\ Contains(<<"a","i">>, Lower(query.company_name))
  /\ \A word \in {<<"b","a","n","k">>, <<"h","s","b","c">>,
                  <<"b","a","r","c","l","a","y","s">>,
                  <<"l","l","o","y","d","s">>, <<"r","b","s">>,
                  <<"n","a","t","w","e","s","t">>,
                  <<"f","i","n","a","n","c","e">>,
                  <<"i","n","s","u","r","a","n","c","e">>} :
       ~Contains(word, Lower(query.company_name))

\* the four listed keywords of Retail and Transportation that contain 'ai'
KeywordsWithAi ==
  {<<"r","e","t","a","i","l">>,
   <<"s","a","i","n","s","b","u","r","y">>,
   <<"a","i","r","l","i","n","e">>,
   <<"b","r","i","t","i","s","h"," ","a","i","r","w","a","y","s">>}

\* C29: a name that contains 'ai' and no Financial Services keyword is
\* classified as Technology, whatever the metadata; so are the names
\* 'retail', 'sainsbury', 'airline' and 'british airways', in either case.
C29_AiIsTechnology ==
  /\ NameWithAi => answer = Ret("Technology")
  /\ (query.op = "determine_company_sector" /\ query.applied
      /\ Lower(query.company_name) \in KeywordsWithAi) =>
        /\ answer = Ret("Technology")
        /\ answer.val \notin {"Retail", "Transportation"}

\* 'sainsbury' was classified, and as Technology
C29_Witness ==
  /\ NameWithAi
  /\ query.company_name = <<"s","a","i","n","s","b","u","r","y">>
  /\ answer = Ret("Technology")


(***************************************************************************)
(* Claims about keys listed more than once, under SpecTicker               *)
(***************************************************************************)
\* the places where the dict literal lists key k
Listings(k) ==
  {i \in 1..Len(uk_companies_literal) : uk_companies_literal[i][1] = k}
\* the keys the literal lists more than once, with different tickers
RelistedKeys ==
  {k \in KeyNames :
     \E i, j \in Listings(k) :
       uk_companies_literal[i][2] # uk_companies_literal[j][2]}
\* find_company_ticker was applied to key k, in some case and padding
ResolvedKey(k) ==
  /\ query.op = "find_company_ticker"
  /\ query.applied
  /\ Strip(Lower(query.company_name)) = k

\* C30: 'sony' resolves to '6758.T' and 'nintendo' to '7974.T'.  In general,
\* for a key listed more than once with different tickers: when none of the
\* keys listed before its first listing matches it, the search is not
\* consulted and the answer is the ticker of its last listing.
C30_LastListedTicker ==
  /\ ResolvedKey(<<"s","o","n","y">>) => answer = Ret("6758.T")
  /\ ResolvedKey(<<"n","i","n","t","e","n","d","o">>) => answer = Ret("7974.T")
  /\ \A k \in RelistedKeys :
       LET first == CHOOSE i \in Listings(k) : \A j \in Listings(k) : i <= j
           last == CHOOSE i \in Listings(k) : \A j \in Listings(k) : j <= i
       IN (/\ ResolvedKey(k)
           /\ \A j \in 1..(first - 1) :
                ~AliasMatch(k, uk_companies_literal[j][1])) =>
            /\ ~query.search.consulted
            /\ answer = Ret(uk_companies_literal[last][2])

\* ' SONY ' was resolved, to the ticker of the last listing of 'sony'
C30_Witness ==
  /\ ResolvedKey(<<"s","o","n","y">>)
  /\ query.company_name = <<" ","S","O","N","Y"," ">>
  /\ <<"s","o","n","y">> \in RelistedKeys
  /\ answer = Ret("6758.T")

=============================================================================
